---- MODULE Spec2Model ----
(***************************************************************************)
(* Checkout session engine of the UCP demo: the shared in-memory session   *)
(* store (backend/business/checkout.py), the HTTP handlers that operate on *)
(* it and the UCPClient direct-call methods (backend/platform/             *)
(* ucp_client.py) that operate on the same store.                          *)
(*                                                                         *)
(* Every handler is a coroutine without an await point and every UCPClient *)
(* method is synchronous, so each one runs to completion on the event loop *)
(* and is one atomic action here.                                          *)
(*                                                                         *)
(* Python's None is modelled by None for scalar values (status, option id, *)
(* address, buyer, payment) and by Null for object values (fulfillment,    *)
(* order, exception, response body).  Addresses, buyers and payment        *)
(* payloads are opaque tokens: the engine only tests them for presence.    *)
(* The constant decorations of a response (ucp metadata, links,            *)
(* continue_url, product and option titles, descriptions, message texts)   *)
(* carry no state and are left out.  uuid4() is a counter: the n-th value  *)
(* issued is n.  The clock advances by one with every read.                *)
(***************************************************************************)
EXTENDS Integers, Sequences, FiniteSets, TLC

VARIABLES
    checkout_sessions,  \* checkout.py:36  session id -> stored session dict
    now,                \* the wall clock read by datetime.now(timezone.utc)
    uuid_counter,       \* number of uuid4() values issued so far
    response,           \* outcome of the last operation (body or exception)
    tasks,              \* route-handler coroutines in flight on the event loop
    running,            \* call of the coroutine that holds the loop, or Null
    event_store,        \* events.py:409  the global EventStore
    tool_state,         \* agent.py:30  tool_context.state["user:checkout_id"]
    connected_clients,  \* websocket.py:18  the WebSockets that get broadcasts
    frames              \* what has been sent on each WebSocket, in order

vars == <<checkout_sessions, now, uuid_counter, response, tasks, running,
          event_store, tool_state, connected_clients, frames>>

loop_vars == <<tasks, running>>

sink_vars == <<event_store, tool_state>>

ws_vars == <<connected_clients, frames>>

----------------------------------------------------------------------------
(* Bounds *)

MaxTime == 3        \* clock reads explored
MaxSessions == 2    \* sessions created
PayloadDepth == 2   \* clock reads explored with the payloads for money
MaxTasks == 2       \* coroutines in flight at once
MaxIssued == 3      \* event ids issued while publishers interleave
MaxStreamed == 1    \* pairs published while WebSockets connect
MaxEmitted == 51    \* request/response pairs published to the event store
MaxMessages == 2    \* length of the message lists given to determine_status

----------------------------------------------------------------------------
(* Values *)

None == "None"
Null == [is_none |-> TRUE]

INCOMPLETE == "incomplete"
REQUIRES_ESCALATION == "requires_escalation"
READY_FOR_COMPLETE == "ready_for_complete"
COMPLETE_IN_PROGRESS == "complete_in_progress"
COMPLETED == "completed"
CANCELED == "canceled"

CheckoutStatus ==
    {INCOMPLETE, REQUIRES_ESCALATION, READY_FOR_COMPLETE,
     COMPLETE_IN_PROGRESS, COMPLETED, CANCELED}

ERROR == "error"
WARNING == "warning"
INFO == "info"

RECOVERABLE == "recoverable"
REQUIRES_BUYER_INPUT == "requires_buyer_input"
REQUIRES_BUYER_REVIEW == "requires_buyer_review"

TTL_HOURS == 24

RECURSIVE SumSeq(_)
SumSeq(s) == IF s = <<>> THEN 0 ELSE Head(s) + SumSeq(Tail(s))

Max(a, b) == IF a >= b THEN a ELSE b
Min(a, b) == IF a <= b THEN a ELSE b

----------------------------------------------------------------------------
(* Catalog *)

CATALOG ==
    [coffee_small     |-> [id |-> "coffee_small",     price |-> 299, currency |-> "USD"],
     coffee_medium    |-> [id |-> "coffee_medium",    price |-> 399, currency |-> "USD"],
     coffee_large     |-> [id |-> "coffee_large",     price |-> 499, currency |-> "USD"],
     latte_medium     |-> [id |-> "latte_medium",     price |-> 549, currency |-> "USD"],
     latte_large      |-> [id |-> "latte_large",      price |-> 649, currency |-> "USD"],
     cappuccino       |-> [id |-> "cappuccino",       price |-> 549, currency |-> "USD"],
     espresso_single  |-> [id |-> "espresso_single",  price |-> 299, currency |-> "USD"],
     espresso_double  |-> [id |-> "espresso_double",  price |-> 399, currency |-> "USD"],
     muffin_blueberry |-> [id |-> "muffin_blueberry", price |-> 349, currency |-> "USD"],
     muffin_chocolate |-> [id |-> "muffin_chocolate", price |-> 349, currency |-> "USD"],
     croissant        |-> [id |-> "croissant",        price |-> 399, currency |-> "USD"],
     bagel            |-> [id |-> "bagel",            price |-> 449, currency |-> "USD"]]

DISCOUNT_CODES ==
    [DEMO20   |-> [title |-> "Demo Discount", type |-> "percentage",    value |-> 20],
     SAVE5    |-> [title |-> "Save $5",       type |-> "fixed",         value |-> 500],
     FREESHIP |-> [title |-> "Free Shipping", type |-> "free_shipping", value |-> 0]]

FULFILLMENT_OPTIONS ==
    << [id |-> "pickup",   price |-> 0],
       [id |-> "standard", price |-> 499],
       [id |-> "express",  price |-> 899] >>

\* str.upper() on the code strings the model submits.
Upper(code) ==
    CASE code = "demo20"   -> "DEMO20"
      [] code = "save5"    -> "SAVE5"
      [] code = "freeship" -> "FREESHIP"
      [] code = "FreeShip" -> "FREESHIP"
      [] code = "bogus"    -> "BOGUS"
      [] OTHER             -> code

\* a lookup with a fallback item instead of None
get_product_with_default(product_id) ==
    IF product_id \in DOMAIN CATALOG THEN CATALOG[product_id]
                                      ELSE CATALOG["coffee_small"]

get_product(product_id) ==
    IF product_id \in DOMAIN CATALOG THEN CATALOG[product_id] ELSE Null

\* a lookup of the code as submitted, without upper-casing it
validate_discount_code_case_sensitive(code) ==
    IF code \in DOMAIN DISCOUNT_CODES THEN DISCOUNT_CODES[code] ELSE Null

validate_discount_code(code) ==
    IF Upper(code) \in DOMAIN DISCOUNT_CODES
    THEN DISCOUNT_CODES[Upper(code)] ELSE Null

----------------------------------------------------------------------------
(* Totals, messages and status *)

\* totals whose total is not clamped at zero
calculate_totals_unclamped(line_items, discounts, fulfillment) ==
    LET subtotal == SumSeq([i \in 1..Len(line_items) |-> line_items[i].total_price])
        discount_amount == SumSeq([i \in 1..Len(discounts) |-> discounts[i].amount])
        has_free_shipping ==
            \E i \in 1..Len(discounts) : Upper(discounts[i].code) = "FREESHIP"
        matching ==
            IF fulfillment # Null /\ fulfillment.selected_option_id # None
            THEN {i \in 1..Len(FULFILLMENT_OPTIONS) :
                     FULFILLMENT_OPTIONS[i].id = fulfillment.selected_option_id}
            ELSE {}
        shipping ==
            IF matching # {} /\ ~has_free_shipping
            THEN FULFILLMENT_OPTIONS[CHOOSE i \in matching :
                                        \A j \in matching : i <= j].price
            ELSE 0
        taxable == Max(0, subtotal - discount_amount)
        \* int(taxable * 0.08): for taxable >= 0 the float product truncates
        \* to the integer quotient
        tax == (taxable * 8) \div 100
        total == subtotal - discount_amount + shipping + tax
    IN  [subtotal |-> subtotal,
         discount |-> discount_amount,
         shipping |-> shipping,
         tax      |-> tax,
         total    |-> total,
         currency |-> "USD"]

\* totals that tax the shipping amount too
calculate_totals_taxing_shipping(line_items, discounts, fulfillment) ==
    LET subtotal == SumSeq([i \in 1..Len(line_items) |-> line_items[i].total_price])
        discount_amount == SumSeq([i \in 1..Len(discounts) |-> discounts[i].amount])
        has_free_shipping ==
            \E i \in 1..Len(discounts) : Upper(discounts[i].code) = "FREESHIP"
        matching ==
            IF fulfillment # Null /\ fulfillment.selected_option_id # None
            THEN {i \in 1..Len(FULFILLMENT_OPTIONS) :
                     FULFILLMENT_OPTIONS[i].id = fulfillment.selected_option_id}
            ELSE {}
        shipping ==
            IF matching # {} /\ ~has_free_shipping
            THEN FULFILLMENT_OPTIONS[CHOOSE i \in matching :
                                        \A j \in matching : i <= j].price
            ELSE 0
        taxable == Max(0, subtotal - discount_amount + shipping)
        \* int(taxable * 0.08): for taxable >= 0 the float product truncates
        \* to the integer quotient
        tax == (taxable * 8) \div 100
        total == subtotal - discount_amount + shipping + tax
    IN  [subtotal |-> subtotal,
         discount |-> discount_amount,
         shipping |-> shipping,
         tax      |-> tax,
         total    |-> Max(0, total),
         currency |-> "USD"]

\* totals that do not look for a free-shipping discount
calculate_totals_charging_free_shipping(line_items, discounts, fulfillment) ==
    LET subtotal == SumSeq([i \in 1..Len(line_items) |-> line_items[i].total_price])
        discount_amount == SumSeq([i \in 1..Len(discounts) |-> discounts[i].amount])
        has_free_shipping == FALSE
        matching ==
            IF fulfillment # Null /\ fulfillment.selected_option_id # None
            THEN {i \in 1..Len(FULFILLMENT_OPTIONS) :
                     FULFILLMENT_OPTIONS[i].id = fulfillment.selected_option_id}
            ELSE {}
        shipping ==
            IF matching # {} /\ ~has_free_shipping
            THEN FULFILLMENT_OPTIONS[CHOOSE i \in matching :
                                        \A j \in matching : i <= j].price
            ELSE 0
        taxable == Max(0, subtotal - discount_amount)
        \* int(taxable * 0.08): for taxable >= 0 the float product truncates
        \* to the integer quotient
        tax == (taxable * 8) \div 100
        total == subtotal - discount_amount + shipping + tax
    IN  [subtotal |-> subtotal,
         discount |-> discount_amount,
         shipping |-> shipping,
         tax      |-> tax,
         total    |-> Max(0, total),
         currency |-> "USD"]

calculate_totals(line_items, discounts, fulfillment) ==
    LET subtotal == SumSeq([i \in 1..Len(line_items) |-> line_items[i].total_price])
        discount_amount == SumSeq([i \in 1..Len(discounts) |-> discounts[i].amount])
        has_free_shipping ==
            \E i \in 1..Len(discounts) : Upper(discounts[i].code) = "FREESHIP"
        matching ==
            IF fulfillment # Null /\ fulfillment.selected_option_id # None
            THEN {i \in 1..Len(FULFILLMENT_OPTIONS) :
                     FULFILLMENT_OPTIONS[i].id = fulfillment.selected_option_id}
            ELSE {}
        shipping ==
            IF matching # {} /\ ~has_free_shipping
            THEN FULFILLMENT_OPTIONS[CHOOSE i \in matching :
                                        \A j \in matching : i <= j].price
            ELSE 0
        taxable == Max(0, subtotal - discount_amount)
        \* int(taxable * 0.08): for taxable >= 0 the float product truncates
        \* to the integer quotient
        tax == (taxable * 8) \div 100
        total == subtotal - discount_amount + shipping + tax
    IN  [subtotal |-> subtotal,
         discount |-> discount_amount,
         shipping |-> shipping,
         tax      |-> tax,
         total    |-> Max(0, total),
         currency |-> "USD"]

\* a derivation that looks for recoverable errors before escalations
determine_status_errors_first(line_items, fulfillment, messages) ==
    LET has_escalation ==
            \E i \in 1..Len(messages) :
                /\ messages[i].type = ERROR
                /\ messages[i].severity \in {REQUIRES_BUYER_INPUT, REQUIRES_BUYER_REVIEW}
        has_errors ==
            \E i \in 1..Len(messages) :
                /\ messages[i].type = ERROR
                /\ messages[i].severity = RECOVERABLE
    IN  IF has_errors THEN INCOMPLETE
        ELSE IF has_escalation THEN REQUIRES_ESCALATION
        ELSE IF line_items = <<>> THEN INCOMPLETE
        ELSE IF fulfillment = Null THEN INCOMPLETE
        ELSE IF fulfillment.selected_option_id = None THEN INCOMPLETE
        ELSE IF /\ fulfillment.selected_option_id \in {"standard", "express"}
                /\ fulfillment.address = None THEN INCOMPLETE
        ELSE READY_FOR_COMPLETE

\* a derivation that wants an address for every option, pickup included
determine_status_address_always(line_items, fulfillment, messages) ==
    LET has_escalation ==
            \E i \in 1..Len(messages) :
                /\ messages[i].type = ERROR
                /\ messages[i].severity \in {REQUIRES_BUYER_INPUT, REQUIRES_BUYER_REVIEW}
        has_errors ==
            \E i \in 1..Len(messages) :
                /\ messages[i].type = ERROR
                /\ messages[i].severity = RECOVERABLE
    IN  IF has_escalation THEN REQUIRES_ESCALATION
        ELSE IF has_errors THEN INCOMPLETE
        ELSE IF line_items = <<>> THEN INCOMPLETE
        ELSE IF fulfillment = Null THEN INCOMPLETE
        ELSE IF fulfillment.selected_option_id = None THEN INCOMPLETE
        ELSE IF fulfillment.address = None THEN INCOMPLETE
        ELSE READY_FOR_COMPLETE

determine_status(line_items, fulfillment, messages) ==
    LET has_escalation ==
            \E i \in 1..Len(messages) :
                /\ messages[i].type = ERROR
                /\ messages[i].severity \in {REQUIRES_BUYER_INPUT, REQUIRES_BUYER_REVIEW}
        has_errors ==
            \E i \in 1..Len(messages) :
                /\ messages[i].type = ERROR
                /\ messages[i].severity = RECOVERABLE
    IN  IF has_escalation THEN REQUIRES_ESCALATION
        ELSE IF has_errors THEN INCOMPLETE
        ELSE IF line_items = <<>> THEN INCOMPLETE
        ELSE IF fulfillment = Null THEN INCOMPLETE
        ELSE IF fulfillment.selected_option_id = None THEN INCOMPLETE
        ELSE IF /\ fulfillment.selected_option_id \in {"standard", "express"}
                /\ fulfillment.address = None THEN INCOMPLETE
        ELSE READY_FOR_COMPLETE

\* messages that ask for an address for every option, pickup included
build_messages_address_always(line_items, fulfillment) ==
    LET cart ==
            IF line_items = <<>>
            THEN << [type |-> WARNING, code |-> "empty_cart", severity |-> None] >>
            ELSE <<>>
        ful ==
            IF fulfillment = Null
            THEN << [type |-> INFO, code |-> "select_fulfillment", severity |-> None] >>
            ELSE IF fulfillment.selected_option_id = None
            THEN << [type |-> ERROR, code |-> "fulfillment_required",
                     severity |-> RECOVERABLE] >>
            ELSE IF fulfillment.address = None
            THEN << [type |-> ERROR, code |-> "address_required",
                     severity |-> RECOVERABLE] >>
            ELSE <<>>
    IN  cart \o ful

\* messages whose missing-option error carries no severity
build_messages_without_severity(line_items, fulfillment) ==
    LET cart ==
            IF line_items = <<>>
            THEN << [type |-> WARNING, code |-> "empty_cart", severity |-> None] >>
            ELSE <<>>
        ful ==
            IF fulfillment = Null
            THEN << [type |-> INFO, code |-> "select_fulfillment", severity |-> None] >>
            ELSE IF fulfillment.selected_option_id = None
            THEN << [type |-> ERROR, code |-> "fulfillment_required",
                     severity |-> None] >>
            ELSE IF /\ fulfillment.selected_option_id \in {"standard", "express"}
                    /\ fulfillment.address = None
            THEN << [type |-> ERROR, code |-> "address_required",
                     severity |-> RECOVERABLE] >>
            ELSE <<>>
    IN  cart \o ful

\* messages whose missing-address error asks for the buyer's input
build_messages_escalating(line_items, fulfillment) ==
    LET cart ==
            IF line_items = <<>>
            THEN << [type |-> WARNING, code |-> "empty_cart", severity |-> None] >>
            ELSE <<>>
        ful ==
            IF fulfillment = Null
            THEN << [type |-> INFO, code |-> "select_fulfillment", severity |-> None] >>
            ELSE IF fulfillment.selected_option_id = None
            THEN << [type |-> ERROR, code |-> "fulfillment_required",
                     severity |-> RECOVERABLE] >>
            ELSE IF /\ fulfillment.selected_option_id \in {"standard", "express"}
                    /\ fulfillment.address = None
            THEN << [type |-> ERROR, code |-> "address_required",
                     severity |-> REQUIRES_BUYER_INPUT] >>
            ELSE <<>>
    IN  cart \o ful

build_messages(line_items, fulfillment) ==
    LET cart ==
            IF line_items = <<>>
            THEN << [type |-> WARNING, code |-> "empty_cart", severity |-> None] >>
            ELSE <<>>
        ful ==
            IF fulfillment = Null
            THEN << [type |-> INFO, code |-> "select_fulfillment", severity |-> None] >>
            ELSE IF fulfillment.selected_option_id = None
            THEN << [type |-> ERROR, code |-> "fulfillment_required",
                     severity |-> RECOVERABLE] >>
            ELSE IF /\ fulfillment.selected_option_id \in {"standard", "express"}
                    /\ fulfillment.address = None
            THEN << [type |-> ERROR, code |-> "address_required",
                     severity |-> RECOVERABLE] >>
            ELSE <<>>
    IN  cart \o ful

\* a response that recomputes the status of terminal sessions too
build_checkout_response_always_derived(session_data) ==
    LET line_items == session_data.line_items
        discounts == session_data.discounts
        fulfillment == session_data.fulfillment
        messages == build_messages(line_items, fulfillment)
    IN  [id          |-> session_data.id,
         status      |-> determine_status(line_items, fulfillment, messages),
         line_items  |-> line_items,
         buyer       |-> session_data.buyer,
         fulfillment |-> fulfillment,
         discounts   |-> discounts,
         totals      |-> calculate_totals(line_items, discounts, fulfillment),
         messages    |-> messages,
         expires_at  |-> session_data.expires_at,
         order       |-> session_data.order,
         created_at  |-> session_data.created_at,
         updated_at  |-> session_data.updated_at]

build_checkout_response(session_data) ==
    LET line_items == session_data.line_items
        discounts == session_data.discounts
        fulfillment == session_data.fulfillment
        messages == build_messages(line_items, fulfillment)
        status ==
            IF session_data.status \notin {COMPLETED, CANCELED}
            THEN determine_status(line_items, fulfillment, messages)
            ELSE session_data.status
    IN  [id          |-> session_data.id,
         status      |-> status,
         line_items  |-> line_items,
         buyer       |-> session_data.buyer,
         fulfillment |-> fulfillment,
         discounts   |-> discounts,
         totals      |-> calculate_totals(line_items, discounts, fulfillment),
         messages    |-> messages,
         expires_at  |-> session_data.expires_at,
         order       |-> session_data.order,
         created_at  |-> session_data.created_at,
         updated_at  |-> session_data.updated_at]

----------------------------------------------------------------------------
(* Resolution of a request payload against the catalog *)

\* Index of the first submitted line whose product is unknown, 0 if none:
\* the iteration of the line-item loop that raises.
FirstUnknown(line_item_reqs) ==
    LET unknown == {i \in 1..Len(line_item_reqs) :
                        get_product(line_item_reqs[i].product_id) = Null}
    IN  IF unknown = {} THEN 0
        ELSE CHOOSE i \in unknown : \A j \in unknown : i <= j

\* a line-item loop that prices every line as a single unit
process_line_items_ignoring_quantity(line_item_reqs, first_uuid) ==
    [i \in 1..Len(line_item_reqs) |->
        LET product == get_product(line_item_reqs[i].product_id)
            quantity == line_item_reqs[i].quantity
        IN  [id          |-> first_uuid + i - 1,
             product_id  |-> product.id,
             quantity    |-> quantity,
             unit_price  |-> product.price,
             total_price |-> product.price,
             currency    |-> product.currency]]

\* The line-item loop; the i-th line takes the uuid first_uuid + i - 1.
process_line_items(line_item_reqs, first_uuid) ==
    [i \in 1..Len(line_item_reqs) |->
        LET product == get_product(line_item_reqs[i].product_id)
            quantity == line_item_reqs[i].quantity
        IN  [id          |-> first_uuid + i - 1,
             product_id  |-> product.id,
             quantity    |-> quantity,
             unit_price  |-> product.price,
             total_price |-> product.price * quantity,
             currency    |-> product.currency]]

\* a discount loop that applies a fixed code at its face value
process_discounts_unclamped(discount_codes, line_items) ==
    LET known == SelectSeq(discount_codes,
                           LAMBDA code : validate_discount_code(code) # Null)
        subtotal == SumSeq([i \in 1..Len(line_items) |-> line_items[i].total_price])
    IN  [i \in 1..Len(known) |->
            LET discount_info == validate_discount_code(known[i])
                amount ==
                    IF discount_info.type = "percentage"
                    THEN (subtotal * discount_info.value) \div 100
                    ELSE IF discount_info.type = "fixed"
                    THEN discount_info.value
                    ELSE 0
            IN  [code     |-> Upper(known[i]),
                 title    |-> discount_info.title,
                 amount   |-> amount,
                 currency |-> "USD"]]

\* The discount loop: unknown codes are skipped.
process_discounts(discount_codes, line_items) ==
    LET known == SelectSeq(discount_codes,
                           LAMBDA code : validate_discount_code(code) # Null)
        subtotal == SumSeq([i \in 1..Len(line_items) |-> line_items[i].total_price])
    IN  [i \in 1..Len(known) |->
            LET discount_info == validate_discount_code(known[i])
                amount ==
                    IF discount_info.type = "percentage"
                    THEN (subtotal * discount_info.value) \div 100
                    ELSE IF discount_info.type = "fixed"
                    THEN Min(discount_info.value, subtotal)
                    ELSE 0
            IN  [code     |-> Upper(known[i]),
                 title    |-> discount_info.title,
                 amount   |-> amount,
                 currency |-> "USD"]]

Fulfillment(address, selected_option_id) ==
    [type |-> "shipping",
     address |-> address,
     selected_option_id |-> selected_option_id,
     available_options |-> FULFILLMENT_OPTIONS]

\* create always stores a Fulfillment object, empty when none was submitted
create_fulfillment(fulfillment_req) ==
    Fulfillment(IF fulfillment_req # Null THEN fulfillment_req.address ELSE None,
                IF fulfillment_req # Null THEN fulfillment_req.selected_option_id
                                          ELSE None)

\* replace stores no fulfillment when none was submitted
update_fulfillment(fulfillment_req) ==
    IF fulfillment_req # Null
    THEN Fulfillment(fulfillment_req.address, fulfillment_req.selected_option_id)
    ELSE Null

----------------------------------------------------------------------------
(* Inputs *)

LineItemRequest(product_id, quantity) ==
    [product_id |-> product_id, quantity |-> quantity]

FulfillmentRequest(address, selected_option_id) ==
    [address |-> address, selected_option_id |-> selected_option_id]

Request(line_items, buyer, fulfillment, discount_codes) ==
    [line_items |-> line_items, buyer |-> buyer,
     fulfillment |-> fulfillment, discount_codes |-> discount_codes]

\* The request payloads explored: an empty cart; a complete order with a
\* lower-case percentage code; a bare single line; an unknown product next to
\* a valid line, buyer, option and code; a delivery option without address
\* with a free-shipping code and an unknown code.
Requests ==
    { Request(<<>>, None, Null, <<>>),
      Request(<< LineItemRequest("latte_medium", 1) >>, "buyer_1",
              FulfillmentRequest("addr_1", "standard"), << "demo20" >>),
      Request(<< LineItemRequest("coffee_small", 1) >>, None, Null, <<>>),
      Request(<< LineItemRequest("latte_medium", 2),
                 LineItemRequest("no_such_product", 1) >>, "buyer_1",
              FulfillmentRequest(None, "pickup"), << "SAVE5" >>),
      Request(<< LineItemRequest("coffee_small", 2) >>, None,
              FulfillmentRequest(None, "standard"), << "FREESHIP", "BOGUS" >>) }

\* Payloads for the resolution of money: an empty cart, the cart of two
\* lattes and a cart cheaper than the fixed discount; no code, one code, a
\* code repeated in two letter cases next to an unknown one, two codes that
\* together exceed the small cart, a mixed-case free-shipping code; no
\* fulfillment, no option, each catalog option and an option that is not in
\* the catalog.
PayloadLineItems ==
    { <<>>,
      << LineItemRequest("latte_medium", 2) >>,
      << LineItemRequest("coffee_small", 1) >> }

PayloadDiscountCodes ==
    { <<>>,
      << "DEMO20" >>,
      << "demo20", "DEMO20", "bogus" >>,
      << "SAVE5", "demo20" >>,
      << "FreeShip" >> }

PayloadFulfillments ==
    { Null,
      FulfillmentRequest(None, None),
      FulfillmentRequest(None, "pickup"),
      FulfillmentRequest("addr_1", "standard"),
      FulfillmentRequest(None, "express"),
      FulfillmentRequest("addr_1", "drone") }

PayloadRequests ==
    { Request(line_items, None, FulfillmentRequest(None, "pickup"), discount_codes) :
          line_items \in PayloadLineItems, discount_codes \in PayloadDiscountCodes }
    \cup
    { Request(<< LineItemRequest("latte_medium", 2) >>, "buyer_1", fulfillment,
              discount_codes) :
          fulfillment \in PayloadFulfillments,
          discount_codes \in { <<>>, << "FreeShip" >> } }

Payments == {None, "payment_1"}

\* ids a caller may present: the id of any stored session, and 0, which
\* uuid4 never issued
UnknownId == 0
SessionIds == DOMAIN checkout_sessions \cup {UnknownId}

----------------------------------------------------------------------------
(* Outcomes *)

HTTPException(status_code, detail) ==
    [exc |-> "HTTPException", status_code |-> status_code, detail |-> detail]

ValueError(detail) ==
    [exc |-> "ValueError", status_code |-> 0, detail |-> detail]

\* The invocation an outcome belongs to: operation, entry point ("http" for
\* the route handlers, "client" for UCPClient) and arguments.
Call(op, caller, session_id, request, payment) ==
    [op |-> op, caller |-> caller, session_id |-> session_id,
     request |-> request, payment |-> payment]

Returned(call, body) == [call |-> call, error |-> Null, body |-> body]

Raised(call, error) == [call |-> call, error |-> error, body |-> Null]

----------------------------------------------------------------------------
(* Event sink, backend/visualizer/events.py *)

max_events == 100

\* EventStore.__init__, then websocket.py:52-53 registers on_event as the
\* only subscriber.  notified and raised are ghosts: the (callback, event id)
\* calls made so far, and whether an exception has left add_event.
EventStore ==
    [_events |-> <<>>, _subscribers |-> <<"on_event">>, _event_counter |-> 0,
     notified |-> {}, raised |-> FALSE, outcomes |-> <<>>]

\* the browser tabs that may open /ws/events
WebSockets == {"ws_1", "ws_2"}

Callbacks == {"on_event", "callback_2"}

\* What each subscriber does when called with an event: it returns, or it
\* raises an Exception (on_event raises RuntimeError when no event loop is
\* running, websocket.py:47).
CallbackOutcomes(store) ==
    [{store._subscribers[i] : i \in DOMAIN store._subscribers}
        -> {"returns", "raises"}]

ProtocolEvent(id, type, direction, session_id) ==
    [id |-> id, type |-> type, direction |-> direction, session_id |-> session_id]

\* a trim that keeps the oldest max_events events and drops the newest
Trim_keeping_oldest(events) ==
    IF Len(events) > max_events
    THEN SubSeq(events, 1, max_events)
    ELSE events

Trim(events) ==
    IF Len(events) > max_events
    THEN SubSeq(events, Len(events) - max_events + 1, Len(events))
    ELSE events

\* an add_event whose notification loop has no try/except: the first
\* subscriber that raises ends the loop and the exception leaves add_event
add_event_unguarded(store, event, outcome) ==
    LET subs == store._subscribers
        raising == {i \in DOMAIN subs : outcome[subs[i]] = "raises"}
        called == IF raising = {} THEN DOMAIN subs
                  ELSE 1..(CHOOSE i \in raising : \A j \in raising : i <= j)
    IN  [store EXCEPT !._events = Trim(Append(@, event)),
                      !.notified = @ \cup {<<subs[i], event.id>> : i \in called},
                      !.raised = @ \/ raising # {},
                      !.outcomes = Append(@, outcome)]

\* The event is appended and the list trimmed before any subscriber runs;
\* every subscriber is called in order and an Exception it raises is caught.
add_event(store, event, outcome) ==
    LET subs == store._subscribers
    IN  [store EXCEPT !._events = Trim(Append(@, event)),
                      !.notified = @ \cup {<<subs[i], event.id>> : i \in DOMAIN subs},
                      !.outcomes = Append(@, outcome)]

next_id(store) == [store EXCEPT !._event_counter = @ + 1]

capture_request(store, event_type, session_id, outcome) ==
    LET counted == next_id(store)
        event == ProtocolEvent(<<counted._event_counter, "request">>, event_type,
                     "request", session_id)
    IN  add_event(counted, event, outcome)

capture_response(store, request_id, event_type, session_id, outcome) ==
    add_event(store,
        ProtocolEvent(<<request_id[1], "response">>, event_type, "response",
            session_id),
        outcome)

\* a clear that also restarts the id counter
clear_resetting(store) == [store EXCEPT !._events = <<>>, !._event_counter = 0]

clear(store) == [store EXCEPT !._events = <<>>]

\* seq[start:] of a Python list: a negative start counts from the end, and
\* both are clipped to the list
SliceFrom(seq, start) ==
    LET n == Len(seq)
        lo == IF start < 0 THEN Max(n + start, 0) ELSE Min(start, n)
    IN  SubSeq(seq, lo + 1, n)

\* self._events[-limit:]
get_events(store, limit) == SliceFrom(store._events, 0 - limit)

subscribe(callback) ==
    /\ callback \notin {event_store._subscribers[i] :
                            i \in DOMAIN event_store._subscribers}
    /\ event_store' = [event_store EXCEPT !._subscribers = Append(@, callback)]
    /\ UNCHANGED <<checkout_sessions, now, uuid_counter, response, tool_state>>

----------------------------------------------------------------------------
(* HTTP handlers, backend/business/checkout.py *)

Init ==
    /\ checkout_sessions = [k \in {} |-> Null]
    /\ now = 0
    /\ uuid_counter = 0
    /\ response = Returned(Call("init", "none", UnknownId, Null, None), Null)
    /\ tasks = {}
    /\ running = Null
    /\ event_store = EventStore
    /\ tool_state = Null
    /\ connected_clients = {}
    /\ frames = [client \in WebSockets |-> <<>>]

\* a store that is rebound to a dict holding only the session written
Store_rebinding(session_id, session_data) ==
    [k \in {session_id} |-> session_data]

\* dict assignment checkout_sessions[session_id] = session_data
Store(session_id, session_data) ==
    [k \in DOMAIN checkout_sessions \cup {session_id} |->
        IF k = session_id THEN session_data ELSE checkout_sessions[k]]

NewSession(session_id, line_items, buyer, fulfillment, discounts) ==
    [id          |-> session_id,
     line_items  |-> line_items,
     buyer       |-> buyer,
     fulfillment |-> fulfillment,
     discounts   |-> discounts,
     status      |-> None,
     order       |-> Null,
     created_at  |-> now,
     updated_at  |-> now,
     expires_at  |-> now + TTL_HOURS]

create_checkout(request) ==
    /\ now < MaxTime
    /\ Cardinality(DOMAIN checkout_sessions) < MaxSessions
    /\ now' = now + 1
    /\ LET session_id == uuid_counter + 1
           bad == FirstUnknown(request.line_items)
       IN  IF bad # 0
           THEN /\ uuid_counter' = uuid_counter + bad
                /\ response' = Raised(Call("create", "http", session_id, request, None),
                       HTTPException(400, "Product not found"))
                /\ UNCHANGED checkout_sessions
           ELSE LET line_items == process_line_items(request.line_items, session_id + 1)
                    discounts == process_discounts(request.discount_codes, line_items)
                    session_data ==
                        NewSession(session_id, line_items, request.buyer,
                                   create_fulfillment(request.fulfillment), discounts)
                IN  /\ uuid_counter' = uuid_counter + 1 + Len(line_items)
                    /\ checkout_sessions' = Store(session_id, session_data)
                    /\ response' = Returned(Call("create", "http", session_id, request, None),
                           build_checkout_response(session_data))

\* a read that makes up an empty session for an id it does not find
get_checkout_with_default(session_id) ==
    /\ UNCHANGED <<now, uuid_counter>>
    /\ LET session_data ==
               IF session_id \in DOMAIN checkout_sessions
               THEN checkout_sessions[session_id]
               ELSE NewSession(session_id, <<>>, None, Null, <<>>)
       IN  /\ checkout_sessions' = Store(session_id, session_data)
           /\ response' = Returned(Call("read", "http", session_id, Null, None),
                  build_checkout_response(session_data))

\* a read that writes the status it derived back into the stored session
get_checkout_storing_status(session_id) ==
    /\ UNCHANGED <<now, uuid_counter>>
    /\ IF session_id \notin DOMAIN checkout_sessions
       THEN /\ response' = Raised(Call("read", "http", session_id, Null, None),
                   HTTPException(404, "Checkout session not found"))
            /\ UNCHANGED checkout_sessions
       ELSE LET body == build_checkout_response(checkout_sessions[session_id])
            IN  /\ response' = Returned(Call("read", "http", session_id, Null, None),
                       body)
                /\ checkout_sessions' =
                     [checkout_sessions EXCEPT ![session_id].status = body.status]

get_checkout(session_id) ==
    /\ UNCHANGED <<checkout_sessions, now, uuid_counter>>
    /\ IF session_id \notin DOMAIN checkout_sessions
       THEN response' = Raised(Call("read", "http", session_id, Null, None),
                HTTPException(404, "Checkout session not found"))
       ELSE response' = Returned(Call("read", "http", session_id, Null, None),
                build_checkout_response(checkout_sessions[session_id]))

\* the terminal check of update_checkout
IsTerminal(session_data) ==
    session_data.status \in {COMPLETED, CANCELED}

\* an update that patches: the new lines are appended to the stored ones
UpdatedSession_appending(session_data, line_items, buyer, fulfillment, discounts) ==
    [session_data EXCEPT !.line_items  = session_data.line_items \o line_items,
                         !.buyer       = buyer,
                         !.fulfillment = fulfillment,
                         !.discounts   = discounts,
                         !.updated_at  = now]

\* an update that keeps the stored lines or fulfillment when the request
\* submits none
UpdatedSession_patching(session_data, line_items, buyer, fulfillment, discounts) ==
    [session_data EXCEPT !.line_items  = IF line_items = <<>>
                                         THEN session_data.line_items
                                         ELSE line_items,
                         !.buyer       = buyer,
                         !.fulfillment = IF fulfillment = Null
                                         THEN session_data.fulfillment
                                         ELSE fulfillment,
                         !.discounts   = discounts,
                         !.updated_at  = now]

\* an update that slides the expiry: expires_at restarts from the update
UpdatedSession_extending(session_data, line_items, buyer, fulfillment, discounts) ==
    [session_data EXCEPT !.line_items  = line_items,
                         !.buyer       = buyer,
                         !.fulfillment = fulfillment,
                         !.discounts   = discounts,
                         !.updated_at  = now,
                         !.expires_at  = now + TTL_HOURS]

\* session_data.update({...}) of update_checkout
UpdatedSession(session_data, line_items, buyer, fulfillment, discounts) ==
    [session_data EXCEPT !.line_items  = line_items,
                         !.buyer       = buyer,
                         !.fulfillment = fulfillment,
                         !.discounts   = discounts,
                         !.updated_at  = now]

update_checkout(session_id, request) ==
    IF session_id \notin DOMAIN checkout_sessions
    THEN /\ response' = Raised(Call("replace", "http", session_id, request, None),
                HTTPException(404, "Checkout session not found"))
         /\ UNCHANGED <<checkout_sessions, now, uuid_counter>>
    ELSE IF IsTerminal(checkout_sessions[session_id])
    THEN /\ response' = Raised(Call("replace", "http", session_id, request, None),
                HTTPException(400,
                    "Cannot update a completed or canceled checkout session"))
         /\ UNCHANGED <<checkout_sessions, now, uuid_counter>>
    ELSE /\ now < MaxTime
         /\ now' = now + 1
         /\ LET session_data == checkout_sessions[session_id]
                bad == FirstUnknown(request.line_items)
            IN  IF bad # 0
                THEN /\ uuid_counter' = uuid_counter + bad - 1
                     /\ response' = Raised(Call("replace", "http", session_id, request, None),
                            HTTPException(400, "Product not found"))
                     /\ UNCHANGED checkout_sessions
                ELSE LET line_items ==
                             process_line_items(request.line_items, uuid_counter + 1)
                         discounts ==
                             process_discounts(request.discount_codes, line_items)
                         updated ==
                             UpdatedSession(session_data, line_items, request.buyer,
                                 update_fulfillment(request.fulfillment), discounts)
                     IN  /\ uuid_counter' = uuid_counter + Len(line_items)
                         /\ checkout_sessions' = Store(session_id, updated)
                         /\ response' = Returned(Call("replace", "http", session_id, request, None),
                                build_checkout_response(updated))

\* OrderConfirmation(...): the id and the permalink take one uuid4() each
OrderConfirmation ==
    [id            |-> uuid_counter + 1,
     permalink_url |-> uuid_counter + 2,
     created_at    |-> now]

\* a completion that stores the status but not the order
CompletedSession_without_order(session_data, order) ==
    [session_data EXCEPT !.status     = COMPLETED,
                         !.updated_at = now]

\* a completion that stores the in-progress status
CompletedSession_in_progress(session_data, order) ==
    [session_data EXCEPT !.status     = COMPLETE_IN_PROGRESS,
                         !.order      = order,
                         !.updated_at = now]

\* session_data.update({...}) of complete_checkout
CompletedSession(session_data, order) ==
    [session_data EXCEPT !.status     = COMPLETED,
                         !.order      = order,
                         !.updated_at = now]

\* a payment check that accepts everything
PaymentMissing_never(payment) == FALSE

\* request.payment is None
PaymentMissing(payment) == payment = None

complete_checkout(session_id, payment) ==
    IF session_id \notin DOMAIN checkout_sessions
    THEN /\ response' = Raised(Call("complete", "http", session_id, Null, payment),
                HTTPException(404, "Checkout session not found"))
         /\ UNCHANGED <<checkout_sessions, now, uuid_counter>>
    ELSE IF checkout_sessions[session_id].status = COMPLETED
    THEN /\ response' = Raised(Call("complete", "http", session_id, Null, payment),
                HTTPException(400, "Checkout session is already completed"))
         /\ UNCHANGED <<checkout_sessions, now, uuid_counter>>
    ELSE IF checkout_sessions[session_id].status = CANCELED
    THEN /\ response' = Raised(Call("complete", "http", session_id, Null, payment),
                HTTPException(400, "Cannot complete a canceled checkout session"))
         /\ UNCHANGED <<checkout_sessions, now, uuid_counter>>
    ELSE IF PaymentMissing(payment)
    THEN /\ response' = Raised(Call("complete", "http", session_id, Null, payment),
                HTTPException(400, "Payment information is required"))
         /\ UNCHANGED <<checkout_sessions, now, uuid_counter>>
    ELSE /\ now < MaxTime
         /\ now' = now + 1
         /\ uuid_counter' = uuid_counter + 2
         /\ LET completed ==
                    CompletedSession(checkout_sessions[session_id], OrderConfirmation)
            IN  /\ checkout_sessions' = Store(session_id, completed)
                /\ response' = Returned(Call("complete", "http", session_id, Null, payment),
                       build_checkout_response(completed))

\* a cancellation that does not touch updated_at
CanceledSession_keeping_updated_at(session_data) ==
    [session_data EXCEPT !.status = CANCELED]

\* session_data.update({...}) of cancel_checkout
CanceledSession(session_data) ==
    [session_data EXCEPT !.status     = CANCELED,
                         !.updated_at = now]

cancel_checkout(session_id) ==
    IF session_id \notin DOMAIN checkout_sessions
    THEN /\ response' = Raised(Call("cancel", "http", session_id, Null, None),
                HTTPException(404, "Checkout session not found"))
         /\ UNCHANGED <<checkout_sessions, now, uuid_counter>>
    ELSE IF checkout_sessions[session_id].status = COMPLETED
    THEN /\ response' = Raised(Call("cancel", "http", session_id, Null, None),
                HTTPException(400, "Cannot cancel a completed checkout session"))
         /\ UNCHANGED <<checkout_sessions, now, uuid_counter>>
    ELSE IF checkout_sessions[session_id].status = CANCELED
    THEN /\ response' = Raised(Call("cancel", "http", session_id, Null, None),
                HTTPException(400, "Checkout session is already canceled"))
         /\ UNCHANGED <<checkout_sessions, now, uuid_counter>>
    ELSE /\ now < MaxTime
         /\ now' = now + 1
         /\ UNCHANGED uuid_counter
         /\ LET canceled == CanceledSession(checkout_sessions[session_id])
            IN  /\ checkout_sessions' = Store(session_id, canceled)
                /\ response' = Returned(Call("cancel", "http", session_id, Null, None),
                       build_checkout_response(canceled))

----------------------------------------------------------------------------
(* UCPClient direct-call methods, backend/platform/ucp_client.py.  They    *)
(* read and write the same checkout_sessions dict.                         *)

UCPClient_create_checkout(request) ==
    /\ now < MaxTime
    /\ Cardinality(DOMAIN checkout_sessions) < MaxSessions
    /\ now' = now + 1
    /\ LET session_id == uuid_counter + 1
           bad == FirstUnknown(request.line_items)
       IN  IF bad # 0
           THEN /\ uuid_counter' = uuid_counter + bad
                /\ response' = Raised(Call("create", "client", session_id, request, None),
                       ValueError("Product not found"))
                /\ UNCHANGED checkout_sessions
           ELSE LET processed_items ==
                        process_line_items(request.line_items, session_id + 1)
                    discounts ==
                        process_discounts(request.discount_codes, processed_items)
                    session_data ==
                        NewSession(session_id, processed_items, request.buyer,
                                   create_fulfillment(request.fulfillment), discounts)
                IN  /\ uuid_counter' = uuid_counter + 1 + Len(processed_items)
                    /\ checkout_sessions' = Store(session_id, session_data)
                    /\ response' = Returned(Call("create", "client", session_id, request, None),
                           build_checkout_response(session_data))

UCPClient_get_checkout(session_id) ==
    /\ UNCHANGED <<checkout_sessions, now, uuid_counter>>
    /\ IF session_id \notin DOMAIN checkout_sessions
       THEN response' = Raised(Call("read", "client", session_id, Null, None),
                ValueError("Checkout session not found"))
       ELSE response' = Returned(Call("read", "client", session_id, Null, None),
                build_checkout_response(checkout_sessions[session_id]))

\* The method reads the clock right after the lookup and has no terminal
\* check.
UCPClient_update_checkout(session_id, request) ==
    IF session_id \notin DOMAIN checkout_sessions
    THEN /\ response' = Raised(Call("replace", "client", session_id, request, None),
                ValueError("Checkout session not found"))
         /\ UNCHANGED <<checkout_sessions, now, uuid_counter>>
    ELSE /\ now < MaxTime
         /\ now' = now + 1
         /\ LET session_data == checkout_sessions[session_id]
                bad == FirstUnknown(request.line_items)
            IN  IF bad # 0
                THEN /\ uuid_counter' = uuid_counter + bad - 1
                     /\ response' = Raised(Call("replace", "client", session_id, request, None),
                            ValueError("Product not found"))
                     /\ UNCHANGED checkout_sessions
                ELSE LET processed_items ==
                             process_line_items(request.line_items, uuid_counter + 1)
                         discounts ==
                             process_discounts(request.discount_codes, processed_items)
                         updated ==
                             UpdatedSession(session_data, processed_items,
                                 request.buyer,
                                 update_fulfillment(request.fulfillment), discounts)
                     IN  /\ uuid_counter' = uuid_counter + Len(processed_items)
                         /\ checkout_sessions' = Store(session_id, updated)
                         /\ response' = Returned(Call("replace", "client", session_id, request, None),
                                build_checkout_response(updated))

\* No status check and no payment check: the payment argument, a required
\* dict, is not read.
UCPClient_complete_checkout(session_id, payment) ==
    IF session_id \notin DOMAIN checkout_sessions
    THEN /\ response' = Raised(Call("complete", "client", session_id, Null, payment),
                ValueError("Checkout session not found"))
         /\ UNCHANGED <<checkout_sessions, now, uuid_counter>>
    ELSE /\ now < MaxTime
         /\ now' = now + 1
         /\ uuid_counter' = uuid_counter + 2
         /\ LET completed ==
                    CompletedSession(checkout_sessions[session_id], OrderConfirmation)
            IN  /\ checkout_sessions' = Store(session_id, completed)
                /\ response' = Returned(Call("complete", "client", session_id, Null, payment),
                       build_checkout_response(completed))

\* No status check.
UCPClient_cancel_checkout(session_id) ==
    IF session_id \notin DOMAIN checkout_sessions
    THEN /\ response' = Raised(Call("cancel", "client", session_id, Null, None),
                ValueError("Checkout session not found"))
         /\ UNCHANGED <<checkout_sessions, now, uuid_counter>>
    ELSE /\ now < MaxTime
         /\ now' = now + 1
         /\ UNCHANGED uuid_counter
         /\ LET canceled == CanceledSession(checkout_sessions[session_id])
            IN  /\ checkout_sessions' = Store(session_id, canceled)
                /\ response' = Returned(Call("cancel", "client", session_id, Null, None),
                       build_checkout_response(canceled))

----------------------------------------------------------------------------
(* Agent tools, backend/platform/agent.py.  A tool is a plain function: it *)
(* calls the UCPClient method and publishes the two events afterwards.     *)

\* capture_response runs only if capture_request returned
_emit_event(store, event_type, session_id, outcome_req, outcome_resp) ==
    LET started == [store EXCEPT !.outcomes = <<>>]
        requested == capture_request(started, event_type, session_id, outcome_req)
    IN  IF requested.raised THEN requested
        ELSE capture_response(requested,
                 <<requested._event_counter, "request">>, event_type, session_id,
                 outcome_resp)

\* item_map: the quantity is added to the line of the same product, a new
\* product goes last
MergeItems(current_items, product_id, quantity) ==
    IF \E i \in DOMAIN current_items : current_items[i].product_id = product_id
    THEN [i \in DOMAIN current_items |->
             IF current_items[i].product_id = product_id
             THEN LineItemRequest(product_id, current_items[i].quantity + quantity)
             ELSE current_items[i]]
    ELSE Append(current_items, LineItemRequest(product_id, quantity))

ToolProducts == {"latte_medium", "coffee_small", "no_such_product"}

add_to_cart(product_id, quantity, outcome_req, outcome_resp) ==
    LET found == /\ tool_state # Null
                 /\ tool_state.checkout_id \in DOMAIN checkout_sessions
        current_items ==
            IF found
            THEN LET line_items ==
                         checkout_sessions[tool_state.checkout_id].line_items
                 IN  [i \in DOMAIN line_items |->
                         LineItemRequest(line_items[i].product_id,
                                         line_items[i].quantity)]
            ELSE <<>>
        merged_items == MergeItems(current_items, product_id, quantity)
        request == Request(merged_items, None, Null, <<>>)
    IN  /\ IF found
           THEN UCPClient_update_checkout(tool_state.checkout_id, request)
           ELSE UCPClient_create_checkout(request)
        /\ IF response'.error # Null
           THEN /\ tool_state' = IF found THEN tool_state ELSE Null
                /\ UNCHANGED event_store
           ELSE /\ tool_state' = [checkout_id |-> response'.call.session_id]
                /\ event_store' =
                       _emit_event(event_store,
                           IF found THEN "update_checkout" ELSE "create_checkout",
                           response'.call.session_id, outcome_req, outcome_resp)

\* _create_error_response and the other dicts a tool returns without having
\* called a mutating client method
ToolError(message) == [exc |-> "ToolError", status_code |-> 0, detail |-> message]

ToolReturn(op, message) ==
    /\ response' = Raised(Call(op, "tool",
                        IF tool_state = Null THEN UnknownId
                        ELSE tool_state.checkout_id, Null, None),
                        ToolError(message))
    /\ UNCHANGED <<checkout_sessions, now, uuid_counter, event_store, tool_state>>

\* [{"product_id": li.product_id, "quantity": li.quantity} for li in ...]
CurrentItems(current) ==
    [i \in DOMAIN current.line_items |->
        LineItemRequest(current.line_items[i].product_id,
                        current.line_items[i].quantity)]

\* [d.code for d in current.discounts]
CurrentCodes(current) ==
    [i \in DOMAIN current.discounts |-> current.discounts[i].code]

\* fulfillment_data of select_shipping: pickup carries no address, any other
\* option the stored address or the demo address
ShippingData(current, option_id) ==
    IF option_id = "pickup"
    THEN FulfillmentRequest(None, option_id)
    ELSE IF current.fulfillment # Null /\ current.fulfillment.address # None
    THEN FulfillmentRequest(current.fulfillment.address, option_id)
    ELSE FulfillmentRequest("addr_demo", option_id)

select_shipping_request(current, option_id) ==
    Request(CurrentItems(current), None, ShippingData(current, option_id),
            CurrentCodes(current))

ToolOptions == {"pickup", "standard", "drone"}

select_shipping(option_id, outcome_req, outcome_resp) ==
    IF tool_state = Null
    THEN ToolReturn("select_shipping", "No active checkout. Add items to your cart first.")
    ELSE IF tool_state.checkout_id \notin DOMAIN checkout_sessions
    THEN ToolReturn("select_shipping", "Could not update shipping. Please try again.")
    ELSE LET checkout_id == tool_state.checkout_id
             current == build_checkout_response(checkout_sessions[checkout_id])
         IN  /\ UCPClient_update_checkout(checkout_id,
                    select_shipping_request(current, option_id))
             /\ UNCHANGED tool_state
             /\ IF response'.error # Null
                THEN UNCHANGED event_store
                ELSE event_store' =
                         _emit_event(event_store, "update_checkout", checkout_id,
                             outcome_req, outcome_resp)

apply_discount_request(current, code) ==
    Request(CurrentItems(current), None,
            IF current.fulfillment # Null
            THEN FulfillmentRequest(current.fulfillment.address,
                                    current.fulfillment.selected_option_id)
            ELSE Null,
            Append(CurrentCodes(current), code))

ToolCodes == {"demo20", "SAVE5", "bogus"}

apply_discount(code, outcome_req, outcome_resp) ==
    IF tool_state = Null
    THEN ToolReturn("apply_discount", "No active checkout. Add items first.")
    ELSE IF tool_state.checkout_id \notin DOMAIN checkout_sessions
    THEN ToolReturn("apply_discount", "Could not apply discount. Please try again.")
    ELSE LET checkout_id == tool_state.checkout_id
             current == build_checkout_response(checkout_sessions[checkout_id])
             existing_codes == CurrentCodes(current)
         IN  IF \E i \in DOMAIN existing_codes :
                    Upper(existing_codes[i]) = Upper(code)
             THEN ToolReturn("apply_discount", "already_applied")
             ELSE /\ UCPClient_update_checkout(checkout_id,
                         apply_discount_request(current, code))
                  /\ UNCHANGED tool_state
                  /\ IF response'.error # Null
                     THEN UNCHANGED event_store
                     ELSE event_store' =
                              _emit_event(event_store, "update_checkout",
                                  checkout_id, outcome_req, outcome_resp)

\* a readiness check that lets every session through
ReadyToComplete_always(current) == TRUE

\* agent.py:540  current.status != CheckoutStatus.READY_FOR_COMPLETE
ReadyToComplete(current) == current.status = READY_FOR_COMPLETE

\* get_payment_handlers: none before discovery, the mock handler after it
PaymentHandlers == {<<>>, <<"mock_payment">>}

\* The tool runs to its end without yielding: select_shipping("pickup") when
\* no option is selected (one clock read, one uuid per line, two events), the
\* readiness check on the session read again, tokenize_payment (one uuid, one
\* clock read, two events) and UCPClient.complete_checkout (one clock read,
\* two uuids, two events).
agent_complete_checkout(handlers, outcome_req, outcome_resp) ==
    IF tool_state = Null
    THEN ToolReturn("complete", "No active checkout")
    ELSE IF tool_state.checkout_id \notin DOMAIN checkout_sessions
    THEN ToolReturn("complete", "Could not complete checkout. Please try again.")
    ELSE
    LET checkout_id == tool_state.checkout_id
        session_data == checkout_sessions[checkout_id]
        first == build_checkout_response(session_data)
        auto_select == \/ first.fulfillment = Null
                       \/ first.fulfillment.selected_option_id = None
        request == select_shipping_request(first, "pickup")
        processed_items == process_line_items(request.line_items, uuid_counter + 1)
        selected ==
            IF auto_select
            THEN UpdatedSession(session_data, processed_items, request.buyer,
                     update_fulfillment(request.fulfillment),
                     process_discounts(request.discount_codes, processed_items))
            ELSE session_data
        selected_at == IF auto_select THEN now + 1 ELSE now
        selected_uuid == IF auto_select THEN uuid_counter + Len(processed_items)
                                        ELSE uuid_counter
        selected_events ==
            IF auto_select
            THEN _emit_event(event_store, "update_checkout", checkout_id,
                     outcome_req, outcome_resp)
            ELSE event_store
        current == build_checkout_response(selected)
        call == Call("complete", "tool", checkout_id, Null, None)
        order == [id            |-> selected_uuid + 2,
                  permalink_url |-> selected_uuid + 3,
                  created_at    |-> selected_at + 1]
        completed == [CompletedSession(selected, order)
                         EXCEPT !.updated_at = selected_at + 1]
    IN  /\ now < MaxTime
        /\ UNCHANGED tool_state
        /\ IF ~ReadyToComplete(current) \/ handlers = <<>>
           THEN /\ checkout_sessions' =
                       IF auto_select THEN Store(checkout_id, selected)
                                      ELSE checkout_sessions
                /\ now' = selected_at
                /\ uuid_counter' = selected_uuid
                /\ event_store' = selected_events
                /\ response' = Raised(call,
                       ToolError(IF ~ReadyToComplete(current)
                                 THEN "Checkout is not ready to complete"
                                 ELSE "No payment handlers available"))
           ELSE /\ checkout_sessions' = Store(checkout_id, completed)
                /\ now' = selected_at + 2
                /\ uuid_counter' = selected_uuid + 3
                /\ event_store' =
                       _emit_event(
                           _emit_event(selected_events, "tokenize", checkout_id,
                               outcome_req, outcome_resp),
                           "complete_checkout", checkout_id, outcome_req, outcome_resp)
                /\ response' = Returned(
                       Call("complete", "client", checkout_id, Null, "payment_data"),
                       build_checkout_response(completed))

----------------------------------------------------------------------------
(* Specification *)

Next ==
    \/ \E request \in Requests :
          /\ create_checkout(request)
          /\ UNCHANGED <<loop_vars, sink_vars, ws_vars>>
    \/ \E session_id \in SessionIds :
          /\ get_checkout(session_id)
          /\ UNCHANGED <<loop_vars, sink_vars, ws_vars>>
    \/ \E session_id \in SessionIds, request \in Requests :
          /\ update_checkout(session_id, request)
          /\ UNCHANGED <<loop_vars, sink_vars, ws_vars>>
    \/ \E session_id \in SessionIds, payment \in Payments :
          /\ complete_checkout(session_id, payment)
          /\ UNCHANGED <<loop_vars, sink_vars, ws_vars>>
    \/ \E session_id \in SessionIds :
          /\ cancel_checkout(session_id)
          /\ UNCHANGED <<loop_vars, sink_vars, ws_vars>>
    \/ \E request \in Requests :
          /\ UCPClient_create_checkout(request)
          /\ UNCHANGED <<loop_vars, sink_vars, ws_vars>>
    \/ \E session_id \in SessionIds :
          /\ UCPClient_get_checkout(session_id)
          /\ UNCHANGED <<loop_vars, sink_vars, ws_vars>>
    \/ \E session_id \in SessionIds, request \in Requests :
          /\ UCPClient_update_checkout(session_id, request)
          /\ UNCHANGED <<loop_vars, sink_vars, ws_vars>>
    \/ \E session_id \in SessionIds, payment \in Payments \ {None} :
          /\ UCPClient_complete_checkout(session_id, payment)
          /\ UNCHANGED <<loop_vars, sink_vars, ws_vars>>
    \/ \E session_id \in SessionIds :
          /\ UCPClient_cancel_checkout(session_id)
          /\ UNCHANGED <<loop_vars, sink_vars, ws_vars>>

Spec == Init /\ [][Next]_vars

\* One session that is created and replaced with the payloads for money,
\* through both entry points, and read.
NextPayloads ==
    \/ \E request \in PayloadRequests :
          /\ DOMAIN checkout_sessions = {}
          /\ create_checkout(request)
          /\ UNCHANGED <<loop_vars, sink_vars, ws_vars>>
    \/ \E request \in PayloadRequests :
          /\ DOMAIN checkout_sessions = {}
          /\ UCPClient_create_checkout(request)
          /\ UNCHANGED <<loop_vars, sink_vars, ws_vars>>
    \/ \E session_id \in DOMAIN checkout_sessions, request \in PayloadRequests :
          /\ now < PayloadDepth
          /\ update_checkout(session_id, request)
          /\ UNCHANGED <<loop_vars, sink_vars, ws_vars>>
    \/ \E session_id \in DOMAIN checkout_sessions, request \in PayloadRequests :
          /\ now < PayloadDepth
          /\ UCPClient_update_checkout(session_id, request)
          /\ UNCHANGED <<loop_vars, sink_vars, ws_vars>>
    \/ \E session_id \in DOMAIN checkout_sessions :
          /\ get_checkout(session_id)
          /\ UNCHANGED <<loop_vars, sink_vars, ws_vars>>

SpecPayloads == Init /\ [][NextPayloads]_vars

\* Sessions older than their expiry.  The server starts more than TTL_HOURS
\* before clock value 0; a session may be created then, the time up to 0
\* passes without a request, and every operation is invoked afterwards, on
\* that session or on one created after 0.  One session is stored at most.
InitExpiry ==
    /\ checkout_sessions = [k \in {} |-> Null]
    /\ now = 0 - (TTL_HOURS + 1)
    /\ uuid_counter = 0
    /\ response = Returned(Call("init", "none", UnknownId, Null, None), Null)
    /\ tasks = {}
    /\ running = Null
    /\ event_store = EventStore
    /\ tool_state = Null
    /\ connected_clients = {}
    /\ frames = [client \in WebSockets |-> <<>>]

Elapse ==
    /\ now < 0
    /\ now' = 0
    /\ UNCHANGED <<checkout_sessions, uuid_counter, response, tasks, running,
                   event_store, tool_state, connected_clients, frames>>

NextExpiry ==
    \/ \E request \in Requests :
          /\ now = 0 - (TTL_HOURS + 1) \/ now >= 0
          /\ DOMAIN checkout_sessions = {}
          /\ create_checkout(request)
          /\ UNCHANGED <<loop_vars, sink_vars, ws_vars>>
    \/ Elapse
    \/ \E session_id \in SessionIds :
          /\ now >= 0
          /\ get_checkout(session_id)
          /\ UNCHANGED <<loop_vars, sink_vars, ws_vars>>
    \/ \E session_id \in SessionIds, request \in Requests :
          /\ now >= 0
          /\ update_checkout(session_id, request)
          /\ UNCHANGED <<loop_vars, sink_vars, ws_vars>>
    \/ \E session_id \in SessionIds, payment \in Payments :
          /\ now >= 0
          /\ complete_checkout(session_id, payment)
          /\ UNCHANGED <<loop_vars, sink_vars, ws_vars>>
    \/ \E session_id \in SessionIds :
          /\ now >= 0
          /\ cancel_checkout(session_id)
          /\ UNCHANGED <<loop_vars, sink_vars, ws_vars>>
    \/ \E session_id \in SessionIds :
          /\ now >= 0
          /\ UCPClient_get_checkout(session_id)
          /\ UNCHANGED <<loop_vars, sink_vars, ws_vars>>
    \/ \E session_id \in SessionIds, request \in Requests :
          /\ now >= 0
          /\ UCPClient_update_checkout(session_id, request)
          /\ UNCHANGED <<loop_vars, sink_vars, ws_vars>>
    \/ \E session_id \in SessionIds, payment \in Payments \ {None} :
          /\ now >= 0
          /\ UCPClient_complete_checkout(session_id, payment)
          /\ UNCHANGED <<loop_vars, sink_vars, ws_vars>>
    \/ \E session_id \in SessionIds :
          /\ now >= 0
          /\ UCPClient_cancel_checkout(session_id)
          /\ UNCHANGED <<loop_vars, sink_vars, ws_vars>>

SpecExpiry == InitExpiry /\ [][NextExpiry]_vars

\* The agent adds products to its cart while subscribers register; every
\* subscriber call may return or raise.
NextEvents ==
    \/ \E product_id \in ToolProducts,
          outcome_req \in CallbackOutcomes(event_store),
          outcome_resp \in CallbackOutcomes(event_store) :
          /\ add_to_cart(product_id, 1, outcome_req, outcome_resp)
          /\ UNCHANGED <<loop_vars, ws_vars>>
    \/ \E callback \in Callbacks :
          /\ subscribe(callback)
          /\ UNCHANGED <<loop_vars, ws_vars>>

SpecEvents == Init /\ [][NextEvents]_vars

\* The agent's tools on the agent's checkout, with the buyer's browser able
\* to cancel the session over HTTP.  The subscriber returns on every event.
AllReturn ==
    [s \in {event_store._subscribers[i] : i \in DOMAIN event_store._subscribers}
        |-> "returns"]

NextAgent ==
    \/ \E product_id \in ToolProducts :
          /\ add_to_cart(product_id, 1, AllReturn, AllReturn)
          /\ UNCHANGED <<loop_vars, ws_vars>>
    \/ \E option_id \in ToolOptions :
          /\ select_shipping(option_id, AllReturn, AllReturn)
          /\ UNCHANGED <<loop_vars, ws_vars>>
    \/ \E code \in ToolCodes :
          /\ apply_discount(code, AllReturn, AllReturn)
          /\ UNCHANGED <<loop_vars, ws_vars>>
    \/ \E handlers \in PaymentHandlers :
          /\ agent_complete_checkout(handlers, AllReturn, AllReturn)
          /\ UNCHANGED <<loop_vars, ws_vars>>
    \/ \E session_id \in DOMAIN checkout_sessions :
          /\ cancel_checkout(session_id)
          /\ UNCHANGED <<loop_vars, sink_vars, ws_vars>>

SpecAgent == Init /\ [][NextAgent]_vars

\* The event store on its own: tools publish request/response pairs, the
\* REST endpoints read the recent events and clear the store.
tool_emits ==
    /\ event_store._event_counter < MaxEmitted
    /\ event_store' = _emit_event(event_store, "get_checkout", UnknownId,
                          AllReturn, AllReturn)
    /\ UNCHANGED <<checkout_sessions, now, uuid_counter, response, tool_state>>

Limits == {0, 1, 20}

\* GET /api/v1/events
get_events_endpoint(limit) ==
    /\ LET events == get_events(event_store, limit)
       IN  response' = Returned(
               Call("get_events", "http", UnknownId, [limit |-> limit], None),
               [events |-> events, count |-> Len(events)])
    /\ UNCHANGED <<checkout_sessions, now, uuid_counter, event_store, tool_state>>

\* POST /api/v1/events/clear
clear_events ==
    /\ event_store' = clear(event_store)
    /\ response' = Returned(Call("clear", "http", UnknownId, Null, None),
                       [status |-> "cleared"])
    /\ UNCHANGED <<checkout_sessions, now, uuid_counter, tool_state>>

NextStore ==
    \/ /\ tool_emits
       /\ UNCHANGED <<loop_vars, ws_vars>>
    \/ \E limit \in Limits :
          /\ get_events_endpoint(limit)
          /\ UNCHANGED <<loop_vars, ws_vars>>
    \/ /\ clear_events
       /\ UNCHANGED <<loop_vars, ws_vars>>

SpecStore == Init /\ [][NextStore]_vars

\* Publishers that interleave.  A tool publishes its pair in one go.
\* EventCaptureMiddleware.dispatch publishes the request event, awaits the
\* endpoint and publishes the response event afterwards (main.py:62-94; the
\* capture is switched off at main.py:29-39): other publishers and clear run
\* in between.
Dispatch(request_id) == [kind |-> "dispatch", request_id |-> request_id]

dispatch_request ==
    /\ event_store._event_counter < MaxIssued
    /\ Cardinality(tasks) < MaxTasks
    /\ event_store' = capture_request(event_store, "get_checkout", UnknownId,
                          AllReturn)
    /\ tasks' = tasks \cup {Dispatch(<<event_store'._event_counter, "request">>)}
    /\ UNCHANGED <<checkout_sessions, now, uuid_counter, response, running,
                   tool_state>>

dispatch_response(t) ==
    /\ t.kind = "dispatch"
    /\ event_store' = capture_response(event_store, t.request_id, "get_checkout",
                          UnknownId, AllReturn)
    /\ tasks' = tasks \ {t}
    /\ UNCHANGED <<checkout_sessions, now, uuid_counter, response, running,
                   tool_state>>

NextPublishers ==
    \/ /\ dispatch_request
       /\ UNCHANGED ws_vars
    \/ \E t \in tasks :
          /\ dispatch_response(t)
          /\ UNCHANGED ws_vars
    \/ /\ event_store._event_counter < MaxIssued
       /\ tool_emits
       /\ UNCHANGED <<loop_vars, ws_vars>>
    \/ /\ clear_events
       /\ UNCHANGED <<loop_vars, ws_vars>>

SpecPublishers == Init /\ [][NextPublishers]_vars

----------------------------------------------------------------------------
(* Event stream, backend/visualizer/websocket.py.  The /ws/events handler  *)
(* and the broadcast tasks are coroutines on the event loop: each step     *)
(* below runs from one await to the next, and a send has put its frame on  *)
(* the socket when the coroutine is suspended in it.                       *)

Handler(client, pc, recent_events) ==
    [kind |-> "websocket_events", client |-> client, pc |-> pc,
     recent_events |-> recent_events]

Broadcast(event, pc, remaining, size) ==
    [kind |-> "broadcast_event", event |-> event, pc |-> pc,
     remaining |-> remaining, size |-> size]

Send(client, frame) ==
    frames' = [frames EXCEPT ![client] = Append(@, frame)]

\* await websocket.accept(); connected_clients.add(websocket)
websocket_accept(client) ==
    /\ frames[client] = <<>>
    /\ \A t \in tasks : t.kind = "websocket_events" => t.client # client
    /\ connected_clients' = connected_clients \cup {client}
    /\ tasks' = tasks \cup {Handler(client, "accepted", <<>>)}
    /\ UNCHANGED <<checkout_sessions, now, uuid_counter, response, running,
                   event_store, tool_state, frames>>

\* await websocket.send_text({"type": "connected", ...})
websocket_greet(t) ==
    /\ t.kind = "websocket_events"
    /\ t.pc = "accepted"
    /\ Send(t.client, "connected")
    /\ tasks' = (tasks \ {t}) \cup {Handler(t.client, "greeted", <<>>)}
    /\ UNCHANGED <<checkout_sessions, now, uuid_counter, response, running,
                   event_store, tool_state, connected_clients>>

\* recent_events = event_store.get_events(limit=20), then the first send of
\* the replay loop, with no await in between
websocket_snapshot(t) ==
    /\ t.kind = "websocket_events"
    /\ t.pc = "greeted"
    /\ LET recent_events == get_events(event_store, 20)
       IN  IF recent_events = <<>>
           THEN /\ tasks' = (tasks \ {t}) \cup {Handler(t.client, "listening", <<>>)}
                /\ UNCHANGED frames
           ELSE /\ Send(t.client, Head(recent_events).id)
                /\ tasks' = (tasks \ {t}) \cup
                       {Handler(t.client, "replaying", Tail(recent_events))}
    /\ UNCHANGED <<checkout_sessions, now, uuid_counter, response, running,
                   event_store, tool_state, connected_clients>>

\* the next send of the replay loop, or the loop's end
websocket_replay(t) ==
    /\ t.kind = "websocket_events"
    /\ t.pc = "replaying"
    /\ IF t.recent_events = <<>>
       THEN /\ tasks' = (tasks \ {t}) \cup {Handler(t.client, "listening", <<>>)}
            /\ UNCHANGED frames
       ELSE /\ Send(t.client, Head(t.recent_events).id)
            /\ tasks' = (tasks \ {t}) \cup
                   {Handler(t.client, "replaying", Tail(t.recent_events))}
    /\ UNCHANGED <<checkout_sessions, now, uuid_counter, response, running,
                   event_store, tool_state, connected_clients>>

\* A tool publishes a pair; on_event, the subscriber, creates one
\* broadcast_event task per event.
publish ==
    /\ event_store._event_counter < MaxStreamed
    /\ LET emitted == _emit_event(event_store, "get_checkout", UnknownId,
                          AllReturn, AllReturn)
           n == emitted._event_counter
           published == SelectSeq(emitted._events, LAMBDA e : e.id[1] = n)
       IN  /\ event_store' = emitted
           /\ tasks' = tasks \cup
                  {Broadcast(published[i], "created", {}, 0) :
                       i \in DOMAIN published}
    /\ UNCHANGED <<checkout_sessions, now, uuid_counter, response, running,
                   tool_state, connected_clients, frames>>

\* broadcast_event up to its first await: nothing to do without clients,
\* else the loop over connected_clients starts and sends to a first client
broadcast_event(t) ==
    /\ t.kind = "broadcast_event"
    /\ t.pc = "created"
    /\ IF connected_clients = {}
       THEN /\ tasks' = tasks \ {t}
            /\ UNCHANGED frames
       ELSE \E client \in connected_clients :
               /\ Send(client, t.event.id)
               /\ tasks' = (tasks \ {t}) \cup
                      {Broadcast(t.event, "sending", connected_clients \ {client},
                           Cardinality(connected_clients))}
    /\ UNCHANGED <<checkout_sessions, now, uuid_counter, response, running,
                   event_store, tool_state, connected_clients>>

\* The loop's next iteration: the set iterator raises RuntimeError when the
\* set has changed size, which ends the task; else the next client is sent
\* the event, and after the last one the task ends.
broadcast_next(t) ==
    /\ t.kind = "broadcast_event"
    /\ t.pc = "sending"
    /\ IF Cardinality(connected_clients) # t.size \/ t.remaining = {}
       THEN /\ tasks' = tasks \ {t}
            /\ UNCHANGED frames
       ELSE \E client \in t.remaining :
               /\ Send(client, t.event.id)
               /\ tasks' = (tasks \ {t}) \cup
                      {Broadcast(t.event, "sending", t.remaining \ {client}, t.size)}
    /\ UNCHANGED <<checkout_sessions, now, uuid_counter, response, running,
                   event_store, tool_state, connected_clients>>

NextStream ==
    \/ \E client \in WebSockets : websocket_accept(client)
    \/ \E t \in tasks : websocket_greet(t)
    \/ \E t \in tasks : websocket_snapshot(t)
    \/ \E t \in tasks : websocket_replay(t)
    \/ publish
    \/ \E t \in tasks : broadcast_event(t)
    \/ \E t \in tasks : broadcast_next(t)

SpecStream == Init /\ [][NextStream]_vars

----------------------------------------------------------------------------
(* The route handlers as coroutines.  The server runs every request as a   *)
(* coroutine on one event loop; a coroutine gives the loop to another one  *)
(* only at an await expression or when it returns.  A handler is followed  *)
(* through its statements: the guards and the resolution of the payload    *)
(* into locals, the one write to the store, the reads of                   *)
(* build_checkout_response up to calculate_totals, and the reads of the    *)
(* CheckoutSession(...) constructor call.                                  *)

\* A replace that submits lines only, one that submits a fulfillment only,
\* and a complete order.
LoopRequests ==
    { Request(<< LineItemRequest("coffee_small", 1) >>, None, Null, <<>>),
      Request(<<>>, None, FulfillmentRequest(None, "pickup"), <<>>),
      Request(<< LineItemRequest("latte_medium", 1) >>, "buyer_1",
              FulfillmentRequest("addr_1", "standard"), << "demo20" >>) }

\* Requests that may arrive: a create while there is no session and none is
\* being created, afterwards any operation on a stored session.
LoopCalls ==
    IF DOMAIN checkout_sessions = {}
    THEN IF \E t \in tasks : t.call.op = "create" THEN {}
         ELSE { Call("create", "http", UnknownId, request, None) :
                    request \in LoopRequests }
    ELSE UNION { { Call("replace", "http", session_id, request, None) :
                       request \in LoopRequests }
                 \cup { Call("read", "http", session_id, Null, None),
                        Call("complete", "http", session_id, Null, "payment_1"),
                        Call("cancel", "http", session_id, Null, None) } :
                 session_id \in DOMAIN checkout_sessions }

Task(call, pc, staged, view) ==
    [call |-> call, pc |-> pc, staged |-> staged, view |-> view]

\* a handler that awaits between deriving the view and returning it
AwaitsAt_before_return(pc) == pc = "derived"

\* The handler bodies contain no await expression.
AwaitsAt(pc) == FALSE

\* The coroutine may take its next step from pc.
Scheduled(t, pc) ==
    /\ t.pc = pc
    /\ running \in {Null, t.call}

Advance(t, pc, staged, view) ==
    /\ tasks' = (tasks \ {t}) \cup {Task(t.call, pc, staged, view)}
    /\ running' = IF AwaitsAt(pc) THEN Null ELSE t.call

Return(t, outcome) ==
    /\ response' = outcome
    /\ tasks' = tasks \ {t}
    /\ running' = Null

\* The session a coroutine works on: the one it created or the one named.
SessionOf(t) ==
    IF t.call.op = "create" THEN t.staged.id ELSE t.call.session_id

Accept(call) ==
    /\ running = Null
    /\ Cardinality(tasks) < MaxTasks
    /\ \A t \in tasks : t.call # call
    /\ tasks' = tasks \cup {Task(call, "accepted", Null, Null)}
    /\ UNCHANGED <<checkout_sessions, now, uuid_counter, response, running>>

create_checkout_resolve(t) ==
    /\ Scheduled(t, "accepted")
    /\ t.call.op = "create"
    /\ now < MaxTime
    /\ now' = now + 1
    /\ UNCHANGED checkout_sessions
    /\ LET session_id == uuid_counter + 1
           request == t.call.request
           bad == FirstUnknown(request.line_items)
       IN  IF bad # 0
           THEN /\ uuid_counter' = uuid_counter + bad
                /\ Return(t, Raised(Call("create", "http", session_id, request, None),
                                    HTTPException(400, "Product not found")))
           ELSE LET line_items == process_line_items(request.line_items, session_id + 1)
                    discounts == process_discounts(request.discount_codes, line_items)
                    session_data ==
                        NewSession(session_id, line_items, request.buyer,
                                   create_fulfillment(request.fulfillment), discounts)
                IN  /\ uuid_counter' = uuid_counter + 1 + Len(line_items)
                    /\ Advance(t, "resolved", session_data, Null)
                    /\ UNCHANGED response

get_checkout_lookup(t) ==
    /\ Scheduled(t, "accepted")
    /\ t.call.op = "read"
    /\ UNCHANGED <<checkout_sessions, now, uuid_counter>>
    /\ IF t.call.session_id \notin DOMAIN checkout_sessions
       THEN Return(t, Raised(t.call, HTTPException(404, "Checkout session not found")))
       ELSE /\ Advance(t, "stored", Null, Null)
            /\ UNCHANGED response

update_checkout_resolve(t) ==
    /\ Scheduled(t, "accepted")
    /\ t.call.op = "replace"
    /\ UNCHANGED checkout_sessions
    /\ IF t.call.session_id \notin DOMAIN checkout_sessions
       THEN /\ Return(t, Raised(t.call, HTTPException(404, "Checkout session not found")))
            /\ UNCHANGED <<now, uuid_counter>>
       ELSE IF IsTerminal(checkout_sessions[t.call.session_id])
       THEN /\ Return(t, Raised(t.call, HTTPException(400,
                      "Cannot update a completed or canceled checkout session")))
            /\ UNCHANGED <<now, uuid_counter>>
       ELSE /\ now < MaxTime
            /\ now' = now + 1
            /\ LET request == t.call.request
                   bad == FirstUnknown(request.line_items)
               IN  IF bad # 0
                   THEN /\ uuid_counter' = uuid_counter + bad - 1
                        /\ Return(t, Raised(t.call,
                                     HTTPException(400, "Product not found")))
                   ELSE LET line_items ==
                                process_line_items(request.line_items, uuid_counter + 1)
                            discounts ==
                                process_discounts(request.discount_codes, line_items)
                        IN  /\ uuid_counter' = uuid_counter + Len(line_items)
                            /\ Advance(t, "resolved",
                                   [line_items  |-> line_items,
                                    buyer       |-> request.buyer,
                                    fulfillment |-> update_fulfillment(request.fulfillment),
                                    discounts   |-> discounts,
                                    updated_at  |-> now], Null)
                            /\ UNCHANGED response

complete_checkout_resolve(t) ==
    /\ Scheduled(t, "accepted")
    /\ t.call.op = "complete"
    /\ UNCHANGED checkout_sessions
    /\ IF t.call.session_id \notin DOMAIN checkout_sessions
       THEN /\ Return(t, Raised(t.call, HTTPException(404, "Checkout session not found")))
            /\ UNCHANGED <<now, uuid_counter>>
       ELSE IF checkout_sessions[t.call.session_id].status = COMPLETED
       THEN /\ Return(t, Raised(t.call, HTTPException(400,
                      "Checkout session is already completed")))
            /\ UNCHANGED <<now, uuid_counter>>
       ELSE IF checkout_sessions[t.call.session_id].status = CANCELED
       THEN /\ Return(t, Raised(t.call, HTTPException(400,
                      "Cannot complete a canceled checkout session")))
            /\ UNCHANGED <<now, uuid_counter>>
       ELSE IF PaymentMissing(t.call.payment)
       THEN /\ Return(t, Raised(t.call, HTTPException(400,
                      "Payment information is required")))
            /\ UNCHANGED <<now, uuid_counter>>
       ELSE /\ now < MaxTime
            /\ now' = now + 1
            /\ uuid_counter' = uuid_counter + 2
            /\ Advance(t, "resolved",
                   [order |-> OrderConfirmation, updated_at |-> now], Null)
            /\ UNCHANGED response

cancel_checkout_resolve(t) ==
    /\ Scheduled(t, "accepted")
    /\ t.call.op = "cancel"
    /\ UNCHANGED <<checkout_sessions, uuid_counter>>
    /\ IF t.call.session_id \notin DOMAIN checkout_sessions
       THEN /\ Return(t, Raised(t.call, HTTPException(404, "Checkout session not found")))
            /\ UNCHANGED now
       ELSE IF checkout_sessions[t.call.session_id].status = COMPLETED
       THEN /\ Return(t, Raised(t.call, HTTPException(400,
                      "Cannot cancel a completed checkout session")))
            /\ UNCHANGED now
       ELSE IF checkout_sessions[t.call.session_id].status = CANCELED
       THEN /\ Return(t, Raised(t.call, HTTPException(400,
                      "Checkout session is already canceled")))
            /\ UNCHANGED now
       ELSE /\ now < MaxTime
            /\ now' = now + 1
            /\ Advance(t, "resolved", [updated_at |-> now], Null)
            /\ UNCHANGED response

\* The write of a mutating handler: checkout_sessions[session_id] =
\* session_data in create, one session_data.update({...}) on the stored dict
\* in replace, complete and cancel.
Commit(t) ==
    /\ Scheduled(t, "resolved")
    /\ LET session_id == SessionOf(t)
           session_data == checkout_sessions[session_id]
           written ==
               CASE t.call.op = "create" -> t.staged
                 [] t.call.op = "replace" ->
                      [UpdatedSession(session_data, t.staged.line_items,
                           t.staged.buyer, t.staged.fulfillment, t.staged.discounts)
                          EXCEPT !.updated_at = t.staged.updated_at]
                 [] t.call.op = "complete" ->
                      [CompletedSession(session_data, t.staged.order)
                          EXCEPT !.updated_at = t.staged.updated_at]
                 [] t.call.op = "cancel" ->
                      [CanceledSession(session_data)
                          EXCEPT !.updated_at = t.staged.updated_at]
       IN  checkout_sessions' = Store(session_id, written)
    /\ Advance(t, "stored", t.staged, Null)
    /\ UNCHANGED <<now, uuid_counter, response>>

\* build_checkout_response up to calculate_totals: what it reads of the
\* stored dict and what it derives from that.
build_checkout_response_derive(session_data) ==
    LET line_items == session_data.line_items
        discounts == session_data.discounts
        fulfillment == session_data.fulfillment
        messages == build_messages(line_items, fulfillment)
        status ==
            IF session_data.status \notin {COMPLETED, CANCELED}
            THEN determine_status(line_items, fulfillment, messages)
            ELSE session_data.status
    IN  [status      |-> status,
         line_items  |-> line_items,
         fulfillment |-> fulfillment,
         discounts   |-> discounts,
         totals      |-> calculate_totals(line_items, discounts, fulfillment),
         messages    |-> messages]

\* The CheckoutSession(...) call: the derived values and the remaining
\* reads of the stored dict.
build_checkout_response_return(view, session_data) ==
    [id          |-> session_data.id,
     status      |-> view.status,
     line_items  |-> view.line_items,
     buyer       |-> session_data.buyer,
     fulfillment |-> view.fulfillment,
     discounts   |-> view.discounts,
     totals      |-> view.totals,
     messages    |-> view.messages,
     expires_at  |-> session_data.expires_at,
     order       |-> session_data.order,
     created_at  |-> session_data.created_at,
     updated_at  |-> session_data.updated_at]

Derive(t) ==
    /\ Scheduled(t, "stored")
    /\ Advance(t, "derived", t.staged,
           build_checkout_response_derive(checkout_sessions[SessionOf(t)]))
    /\ UNCHANGED <<checkout_sessions, now, uuid_counter, response>>

Finish(t) ==
    /\ Scheduled(t, "derived")
    /\ Return(t, Returned([t.call EXCEPT !.session_id = SessionOf(t)],
           build_checkout_response_return(t.view, checkout_sessions[SessionOf(t)])))
    /\ UNCHANGED <<checkout_sessions, now, uuid_counter>>

NextLoop ==
    \/ \E call \in LoopCalls :
          /\ Accept(call)
          /\ UNCHANGED <<sink_vars, ws_vars>>
    \/ \E t \in tasks :
          /\ create_checkout_resolve(t)
          /\ UNCHANGED <<sink_vars, ws_vars>>
    \/ \E t \in tasks :
          /\ get_checkout_lookup(t)
          /\ UNCHANGED <<sink_vars, ws_vars>>
    \/ \E t \in tasks :
          /\ update_checkout_resolve(t)
          /\ UNCHANGED <<sink_vars, ws_vars>>
    \/ \E t \in tasks :
          /\ complete_checkout_resolve(t)
          /\ UNCHANGED <<sink_vars, ws_vars>>
    \/ \E t \in tasks :
          /\ cancel_checkout_resolve(t)
          /\ UNCHANGED <<sink_vars, ws_vars>>
    \/ \E t \in tasks :
          /\ Commit(t)
          /\ UNCHANGED <<sink_vars, ws_vars>>
    \/ \E t \in tasks :
          /\ Derive(t)
          /\ UNCHANGED <<sink_vars, ws_vars>>
    \/ \E t \in tasks :
          /\ Finish(t)
          /\ UNCHANGED <<sink_vars, ws_vars>>

SpecLoop == Init /\ [][NextLoop]_vars

----------------------------------------------------------------------------
(* build_messages and determine_status as functions.  The inputs are drawn *)
(* in the initial state: a cart, a fulfillment and a message list;         *)
(* build_messages replaces the message list by the one it generates, and   *)
(* determine_status derives the status from whichever list is there.       *)

DeriveLineItems ==
    { <<>>, process_line_items(<< LineItemRequest("latte_medium", 1) >>, 1) }

DeriveFulfillments ==
    {Null} \cup
    { Fulfillment(address, selected_option_id) :
          address \in {None, "addr_1"},
          selected_option_id \in {None, "pickup", "standard", "express", "drone"} }

\* Messages a caller of determine_status may pass: those build_messages can
\* generate, errors of the two escalation severities, and a warning that
\* carries an escalation severity.
MessagePool ==
    { [type |-> WARNING, code |-> "empty_cart", severity |-> None],
      [type |-> INFO, code |-> "select_fulfillment", severity |-> None],
      [type |-> ERROR, code |-> "fulfillment_required", severity |-> RECOVERABLE],
      [type |-> ERROR, code |-> "payment_declined", severity |-> REQUIRES_BUYER_INPUT],
      [type |-> ERROR, code |-> "review_required", severity |-> REQUIRES_BUYER_REVIEW],
      [type |-> WARNING, code |-> "review_suggested", severity |-> REQUIRES_BUYER_REVIEW] }

DeriveMessages ==
    UNION { [1..n -> MessagePool] : n \in 0..MaxMessages }

DeriveInput(line_items, fulfillment, messages, generated) ==
    [line_items |-> line_items, fulfillment |-> fulfillment,
     messages |-> messages, generated |-> generated]

InitDerive ==
    /\ checkout_sessions = [k \in {} |-> Null]
    /\ now = 0
    /\ uuid_counter = 0
    /\ tasks = {}
    /\ running = Null
    /\ event_store = EventStore
    /\ tool_state = Null
    /\ connected_clients = {}
    /\ frames = [client \in WebSockets |-> <<>>]
    /\ \E line_items \in DeriveLineItems, fulfillment \in DeriveFulfillments,
          messages \in DeriveMessages :
          response = Returned(Call("inputs", "none", UnknownId,
                         DeriveInput(line_items, fulfillment, messages, FALSE), None),
                         Null)

apply_build_messages ==
    /\ response.call.op = "inputs"
    /\ LET input == response.call.request
       IN  response' = Returned(Call("messages", "none", UnknownId,
                           DeriveInput(input.line_items, input.fulfillment,
                               build_messages(input.line_items, input.fulfillment),
                               TRUE), None),
                           Null)
    /\ UNCHANGED <<checkout_sessions, now, uuid_counter, tasks, running>>
    /\ UNCHANGED <<sink_vars, ws_vars>>

apply_determine_status ==
    /\ response.call.op \in {"inputs", "messages"}
    /\ LET input == response.call.request
       IN  response' = Returned(Call("status", "none", UnknownId, input, None),
                           [status |-> determine_status(input.line_items,
                                           input.fulfillment, input.messages)])
    /\ UNCHANGED <<checkout_sessions, now, uuid_counter, tasks, running>>
    /\ UNCHANGED <<sink_vars, ws_vars>>

NextDerive ==
    \/ apply_build_messages
    \/ apply_determine_status

SpecDerive == InitDerive /\ [][NextDerive]_vars

----------------------------------------------------------------------------
(* Properties *)

\* Classification of the exceptions by the error taxonomy.
SessionNotFound(error) ==
    error # Null /\ error.detail = "Checkout session not found"

ProductNotFound(error) ==
    error # Null /\ error.detail = "Product not found"

PaymentRequired(error) ==
    error # Null /\ error.detail = "Payment information is required"

InvalidState(error) ==
    /\ error # Null
    /\ error.detail \in
         {"Cannot update a completed or canceled checkout session",
          "Checkout session is already completed",
          "Cannot complete a canceled checkout session",
          "Cannot cancel a completed checkout session",
          "Checkout session is already canceled"}

\* The step just taken was an invocation of op on a stored session.
StepOn(op, session_id) ==
    /\ response'.call.op = op
    /\ response'.call.session_id = session_id
    /\ session_id \in DOMAIN checkout_sessions

\* C1: once the stored status of a session is COMPLETED or CANCELED, no
\* operation through any entry point moves it to another status.
C1_TerminalStatusKept ==
    [][\A id \in DOMAIN checkout_sessions :
          IsTerminal(checkout_sessions[id]) =>
              /\ id \in DOMAIN checkout_sessions'
              /\ checkout_sessions'[id].status = checkout_sessions[id].status]_vars

\* C2: a replace of a COMPLETED or CANCELED session, through any entry point,
\* fails with InvalidState and leaves the store unchanged.
C2_ReplaceOnTerminalRejected ==
    [][\A id \in DOMAIN checkout_sessions :
          (StepOn("replace", id) /\ IsTerminal(checkout_sessions[id])) =>
              /\ InvalidState(response'.error)
              /\ checkout_sessions' = checkout_sessions]_vars

\* C3: the order of a session is null until a complete succeeds on it, and
\* once set it is never replaced or cleared.
C3_OrderSetOnce ==
    [][\A id \in DOMAIN checkout_sessions' :
          LET old == IF id \in DOMAIN checkout_sessions
                     THEN checkout_sessions[id].order ELSE Null
              new == checkout_sessions'[id].order
          IN  /\ old # Null => new = old
              /\ (old = Null /\ new # Null) =>
                    /\ response'.call.op = "complete"
                    /\ response'.call.session_id = id
                    /\ response'.error = Null]_vars

\* C10: a cancel of a non-terminal session sets status CANCELED and updatedAt
\* and nothing else; a cancel of a COMPLETED or CANCELED session, through any
\* entry point, fails with InvalidState and changes nothing.
C10_CancelContract ==
    [][\A id \in DOMAIN checkout_sessions :
          StepOn("cancel", id) =>
              IF IsTerminal(checkout_sessions[id])
              THEN /\ InvalidState(response'.error)
                   /\ checkout_sessions' = checkout_sessions
              ELSE /\ response'.error = Null
                   /\ checkout_sessions' =
                        [checkout_sessions EXCEPT
                            ![id] = [@ EXCEPT !.status = CANCELED,
                                              !.updated_at = now]]]_vars

\* C4: after a successful replace the stored line items, discounts and
\* fulfillment are those resolved from the request payload alone: one line per
\* submitted line in request order, priced from the catalog, the discounts of
\* the submitted codes, and the submitted fulfillment or none.
C4_ReplaceIsFullReplacement ==
    [][\A id \in DOMAIN checkout_sessions :
          (StepOn("replace", id) /\ response'.error = Null) =>
              LET req == response'.call.request
                  new == checkout_sessions'[id]
              IN  /\ Len(new.line_items) = Len(req.line_items)
                  /\ \A i \in 1..Len(req.line_items) :
                        LET line == new.line_items[i]
                            price == CATALOG[req.line_items[i].product_id].price
                        IN  /\ line.product_id = req.line_items[i].product_id
                            /\ line.quantity = req.line_items[i].quantity
                            /\ line.unit_price = price
                            /\ line.total_price = price * line.quantity
                  /\ new.discounts =
                        process_discounts(req.discount_codes, new.line_items)
                  /\ new.fulfillment =
                        IF req.fulfillment = Null THEN Null
                        ELSE [type |-> "shipping",
                              address |-> req.fulfillment.address,
                              selected_option_id |->
                                  req.fulfillment.selected_option_id,
                              available_options |-> FULFILLMENT_OPTIONS]]_vars

\* A second mutation of session 1 was a successful replace by the bare
\* coffee_small request: the session holds that single line (resolved by a
\* later uuid than the session id and the line it was created with) and
\* neither discounts nor fulfillment.
C4_Witness ==
    /\ response.call.op = "replace"
    /\ response.error = Null
    /\ response.call.session_id = 1
    /\ 1 \in DOMAIN checkout_sessions
    /\ Len(checkout_sessions[1].line_items) = 1
    /\ checkout_sessions[1].line_items[1].product_id = "coffee_small"
    /\ checkout_sessions[1].line_items[1].id > 2
    /\ checkout_sessions[1].discounts = <<>>
    /\ checkout_sessions[1].fulfillment = Null
    /\ checkout_sessions[1].updated_at > checkout_sessions[1].created_at

HasUnknownProduct(request) ==
    \E i \in 1..Len(request.line_items) :
        request.line_items[i].product_id \notin DOMAIN CATALOG

\* C5: a create or replace that submits a product id outside the catalog
\* leaves the store exactly as it was, and fails with ProductNotFound (for a
\* replace: when it targets a stored non-terminal session).
C5_UnknownProductRejected ==
    [][(/\ response'.call.op \in {"create", "replace"}
        /\ HasUnknownProduct(response'.call.request)) =>
          /\ checkout_sessions' = checkout_sessions
          /\ response'.body = Null
          /\ (\/ response'.call.op = "create"
              \/ /\ response'.call.session_id \in DOMAIN checkout_sessions
                 /\ ~IsTerminal(checkout_sessions[response'.call.session_id]))
                => ProductNotFound(response'.error)]_vars

\* A replace with one valid and one unknown line, a buyer, an option and a
\* valid code failed with ProductNotFound on a stored session.
C5_Witness ==
    /\ response.call.op = "replace"
    /\ ProductNotFound(response.error)
    /\ response.call.session_id \in DOMAIN checkout_sessions
    /\ Len(response.call.request.line_items) = 2
    /\ response.call.request.line_items[1].product_id \in DOMAIN CATALOG
    /\ response.call.request.discount_codes = << "SAVE5" >>
    /\ checkout_sessions[response.call.session_id].updated_at < now - 1

\* C6: a read leaves the store unchanged, and a read that directly follows a
\* read of the same session returns the same status, messages and totals.
C6_ReadIsPure ==
    [][response'.call.op = "read" =>
          /\ checkout_sessions' = checkout_sessions
          /\ (/\ response.call.op = "read"
              /\ response.call.session_id = response'.call.session_id
              /\ response.error = Null) =>
                /\ response'.error = Null
                /\ response'.body.status = response.body.status
                /\ response'.body.messages = response.body.messages
                /\ response'.body.totals = response.body.totals]_vars

\* A read returned the view of a stored non-terminal session that has
\* messages and a non-zero total.
C6_Witness ==
    /\ response.call.op = "read"
    /\ response.error = Null
    /\ ~IsTerminal(checkout_sessions[response.call.session_id])
    /\ response.body.messages # <<>>
    /\ response.body.totals.total > 0

\* C7: the status in every response is the stored status when that is
\* COMPLETED or CANCELED, and otherwise the deriver's result for the line
\* items and fulfillment the session holds at that moment.
C7_ReportedStatusIsCurrent ==
    response.body # Null =>
        LET stored == checkout_sessions[response.call.session_id]
        IN  response.body.status =
                IF stored.status \in {COMPLETED, CANCELED}
                THEN stored.status
                ELSE determine_status(stored.line_items, stored.fulfillment,
                         build_messages(stored.line_items, stored.fulfillment))

\* A replace of a session returned READY_FOR_COMPLETE.
C7_Witness ==
    /\ response.call.op = "replace"
    /\ response.error = Null
    /\ response.body.status = READY_FOR_COMPLETE
    /\ checkout_sessions[response.call.session_id].status = None

\* C8: a complete with a payment payload on a stored non-terminal session
\* succeeds whatever the derived status was: status COMPLETED, a freshly
\* minted order, updatedAt set, every other field and session unchanged.
C8_CompleteSucceedsUngated ==
    [][\A id \in DOMAIN checkout_sessions :
          (/\ StepOn("complete", id)
           /\ ~IsTerminal(checkout_sessions[id])
           /\ response'.call.payment # None) =>
              LET new == checkout_sessions'[id]
              IN  /\ response'.error = Null
                  /\ response'.body.status = COMPLETED
                  /\ new.order # Null
                  /\ new.order.id > uuid_counter
                  /\ new.order.created_at = now
                  /\ checkout_sessions' =
                        [checkout_sessions EXCEPT
                            ![id] = [@ EXCEPT !.status = COMPLETED,
                                              !.order = new.order,
                                              !.updated_at = now]]]_vars

\* A complete succeeded on a session with an empty cart, whose derived
\* status was INCOMPLETE.
C8_Witness ==
    /\ response.call.op = "complete"
    /\ response.error = Null
    /\ checkout_sessions[response.call.session_id].line_items = <<>>
    /\ checkout_sessions[response.call.session_id].status = COMPLETED
    /\ checkout_sessions[response.call.session_id].order # Null

\* C9: a complete without payment payload on a stored non-terminal session
\* fails with PaymentRequired, mints nothing and leaves the store unchanged.
C9_PaymentRequired ==
    [][\A id \in DOMAIN checkout_sessions :
          (/\ StepOn("complete", id)
           /\ ~IsTerminal(checkout_sessions[id])
           /\ response'.call.payment = None) =>
              /\ PaymentRequired(response'.error)
              /\ checkout_sessions' = checkout_sessions
              /\ uuid_counter' = uuid_counter
              /\ now' = now]_vars

\* A complete without payment failed with PaymentRequired on a session that
\* is still non-terminal and without order.
C9_Witness ==
    /\ response.call.op = "complete"
    /\ response.call.payment = None
    /\ PaymentRequired(response.error)
    /\ checkout_sessions[response.call.session_id].status = None
    /\ checkout_sessions[response.call.session_id].order = Null

\* C11: a read, replace, complete or cancel of an id that is not in the
\* store fails with SessionNotFound and leaves the store unchanged.
C11_UnknownIdRejected ==
    [][(/\ response'.call.op \in {"read", "replace", "complete", "cancel"}
        /\ response'.call.session_id \notin DOMAIN checkout_sessions) =>
          /\ SessionNotFound(response'.error)
          /\ response'.body = Null
          /\ checkout_sessions' = checkout_sessions]_vars

\* A cancel of an id that is not stored failed with SessionNotFound while
\* the store holds a session.
C11_Witness ==
    /\ response.call.op = "cancel"
    /\ SessionNotFound(response.error)
    /\ response.call.session_id \notin DOMAIN checkout_sessions
    /\ DOMAIN checkout_sessions # {}

\* C14: a step changes no session but the one it was invoked on: a
\* successful create adds exactly one key, which was not in the store, and no
\* other operation changes the set of keys.
C14_OtherSessionsUntouched ==
    [][/\ \A id \in DOMAIN checkout_sessions :
             id # response'.call.session_id =>
                 /\ id \in DOMAIN checkout_sessions'
                 /\ checkout_sessions'[id] = checkout_sessions[id]
       /\ IF response'.call.op = "create" /\ response'.error = Null
          THEN /\ response'.call.session_id \notin DOMAIN checkout_sessions
               /\ DOMAIN checkout_sessions' =
                    DOMAIN checkout_sessions \cup {response'.call.session_id}
          ELSE DOMAIN checkout_sessions' = DOMAIN checkout_sessions]_vars

\* With two sessions stored, a complete succeeded on one of them and the
\* other is still as it was created.
C14_Witness ==
    /\ Cardinality(DOMAIN checkout_sessions) = 2
    /\ response.call.op = "complete"
    /\ response.error = Null
    /\ \E other \in DOMAIN checkout_sessions :
          /\ other # response.call.session_id
          /\ checkout_sessions[other].status = None
          /\ checkout_sessions[other].updated_at =
                checkout_sessions[other].created_at

\* Sums a response or a stored session is measured against.
LineTotal(line_items) ==
    SumSeq([i \in 1..Len(line_items) |-> line_items[i].total_price])

DiscountTotal(discounts) ==
    SumSeq([i \in 1..Len(discounts) |-> discounts[i].amount])

\* C15: in every response, subtotal is the sum of the lines' total prices,
\* discount the sum of the discounts' amounts, and total is
\* max(0, subtotal - discount + shipping + tax), so never negative.
C15_TotalFormula ==
    response.body # Null =>
        LET body == response.body
            subtotal == LineTotal(body.line_items)
            discountAmount == DiscountTotal(body.discounts)
            sum == subtotal - discountAmount + body.totals.shipping + body.totals.tax
        IN  /\ body.totals.subtotal = subtotal
            /\ body.totals.discount = discountAmount
            /\ body.totals.total = (IF sum > 0 THEN sum ELSE 0)
            /\ body.totals.total >= 0

\* A response whose discounts sum to more than its subtotal, with total 0.
C15_Witness ==
    /\ response.body # Null
    /\ response.body.totals.discount > response.body.totals.subtotal
    /\ response.body.totals.subtotal > 0
    /\ response.body.totals.total = 0

\* C16: in every response, tax is (8 * max(0, subtotal - discount)) div 100,
\* whatever the shipping amount, and 0 when the discounts reach the subtotal.
C16_TaxFormula ==
    response.body # Null =>
        LET body == response.body
            subtotal == LineTotal(body.line_items)
            discountAmount == DiscountTotal(body.discounts)
        IN  /\ body.totals.tax =
                  (IF subtotal > discountAmount
                   THEN (8 * (subtotal - discountAmount)) \div 100
                   ELSE 0)
            /\ discountAmount >= subtotal => body.totals.tax = 0

\* A response with shipping charged and a tax that is the quotient rounded
\* down.
C16_Witness ==
    /\ response.body # Null
    /\ response.body.totals.shipping > 0
    /\ response.body.totals.tax > 0
    /\ response.body.totals.tax * 100 <
          8 * (response.body.totals.subtotal - response.body.totals.discount)

\* C17: in every response, shipping is 0 without fulfillment, without a
\* selected option and with a FREESHIP discount; otherwise it is the catalog
\* price of the selected option: pickup 0, standard 499, express 899 (and 0
\* for an option id the catalog does not list, which has no price).
C17_ShippingFormula ==
    response.body # Null =>
        LET body == response.body
            free == \E i \in 1..Len(body.discounts) :
                        body.discounts[i].code = "FREESHIP"
            shipping == body.totals.shipping
        IN  IF body.fulfillment = Null THEN shipping = 0
            ELSE IF body.fulfillment.selected_option_id = None THEN shipping = 0
            ELSE IF free THEN shipping = 0
            ELSE CASE body.fulfillment.selected_option_id = "pickup" -> shipping = 0
                   [] body.fulfillment.selected_option_id = "standard" -> shipping = 499
                   [] body.fulfillment.selected_option_id = "express" -> shipping = 899
                   [] OTHER -> shipping = 0

\* A response to a request that selected standard delivery and submitted the
\* free-shipping code in mixed case: shipping is 0.
C17_Witness ==
    /\ response.body # Null
    /\ response.call.request # Null
    /\ response.call.request.discount_codes = << "FreeShip" >>
    /\ response.body.fulfillment # Null
    /\ response.body.fulfillment.selected_option_id = "standard"
    /\ response.body.totals.shipping = 0

\* The amount a known code resolves to against a subtotal.
ResolvedAmount(code, subtotal) ==
    CASE code = "DEMO20"   -> (subtotal * 20) \div 100
      [] code = "SAVE5"    -> (IF subtotal < 500 THEN subtotal ELSE 500)
      [] code = "FREESHIP" -> 0

TwoLattesDemo20Pickup ==
    Request(<< LineItemRequest("latte_medium", 2) >>, None,
            FulfillmentRequest(None, "pickup"), << "DEMO20" >>)

\* C18: a successful create or replace answers with one line per submitted
\* line, priced at the catalog price times the quantity, and with every
\* discount resolved against the full subtotal of the submitted lines:
\* percentage floor(subtotal * percent / 100), fixed min(value, subtotal),
\* free shipping 0; two latte_medium with DEMO20 and pickup give subtotal 1098,
\* discount 219, shipping 0, tax 70, total 949.
C18_MoneyResolution ==
    (response.call.op \in {"create", "replace"} /\ response.body # Null) =>
        LET body == response.body
            request == response.call.request
            subtotal == LineTotal(body.line_items)
        IN  /\ Len(body.line_items) = Len(request.line_items)
            /\ \A i \in 1..Len(body.line_items) :
                  /\ body.line_items[i].product_id = request.line_items[i].product_id
                  /\ body.line_items[i].quantity = request.line_items[i].quantity
                  /\ body.line_items[i].unit_price =
                        CATALOG[request.line_items[i].product_id].price
                  /\ body.line_items[i].total_price =
                        body.line_items[i].unit_price * body.line_items[i].quantity
            /\ \A i \in 1..Len(body.discounts) :
                  body.discounts[i].amount =
                      ResolvedAmount(body.discounts[i].code, subtotal)
            /\ request = TwoLattesDemo20Pickup =>
                  body.totals = [subtotal |-> 1098, discount |-> 219, shipping |-> 0,
                                 tax |-> 70, total |-> 949, currency |-> "USD"]

\* A replace answered the two lattes with DEMO20 and pickup.
C18_Witness ==
    /\ response.call.op = "replace"
    /\ response.body # Null
    /\ response.call.request = TwoLattesDemo20Pickup
    /\ response.body.totals.total = 949

\* C19: every discount of every stored session has an upper-case code and
\* an amount between 0 and the sum of the session's lines' total prices.
C19_DiscountBounds ==
    \A id \in DOMAIN checkout_sessions :
        LET session_data == checkout_sessions[id]
        IN  \A i \in 1..Len(session_data.discounts) :
                /\ Upper(session_data.discounts[i].code) =
                      session_data.discounts[i].code
                /\ session_data.discounts[i].code \in DOMAIN DISCOUNT_CODES
                /\ session_data.discounts[i].amount >= 0
                /\ session_data.discounts[i].amount <=
                      LineTotal(session_data.line_items)

\* A stored session whose cart is cheaper than the fixed discount it holds,
\* submitted next to a lower-case code: the fixed amount is the subtotal.
C19_Witness ==
    \E id \in DOMAIN checkout_sessions :
        LET session_data == checkout_sessions[id]
        IN  /\ LineTotal(session_data.line_items) = 299
            /\ Len(session_data.discounts) = 2
            /\ session_data.discounts[1].code = "SAVE5"
            /\ session_data.discounts[1].amount = 299
            /\ session_data.discounts[2].code = "DEMO20"

\* C20: in every stored session no two discounts have the same case-folded
\* code.
C20_DiscountsUnique ==
    \A id \in DOMAIN checkout_sessions :
        LET discounts == checkout_sessions[id].discounts
        IN  \A i, j \in 1..Len(discounts) :
                Upper(discounts[i].code) = Upper(discounts[j].code) => i = j

\* Lines, discounts and fulfillment are the resolution of one payload.
FromOnePayload(line_items, discounts, fulfillment) ==
    \E request \in LoopRequests :
        /\ Len(line_items) = Len(request.line_items)
        /\ \A i \in 1..Len(line_items) :
              /\ line_items[i].product_id = request.line_items[i].product_id
              /\ line_items[i].quantity = request.line_items[i].quantity
        /\ discounts = process_discounts(request.discount_codes, line_items)
        /\ \/ fulfillment = create_fulfillment(request.fulfillment)
           \/ fulfillment = update_fulfillment(request.fulfillment)

\* C12: with creates and replaces of one session in flight together, the
\* stored session and every response have line items, discounts and
\* fulfillment that all come from one single payload.
C12_ReplaceNotTorn ==
    /\ \A id \in DOMAIN checkout_sessions :
          FromOnePayload(checkout_sessions[id].line_items,
                         checkout_sessions[id].discounts,
                         checkout_sessions[id].fulfillment)
    /\ response.body # Null =>
          FromOnePayload(response.body.line_items, response.body.discounts,
                         response.body.fulfillment)

\* A replace that submits lines only has written the store while a replace of
\* the same session that submits a fulfillment only, accepted before the
\* first one started, waits for the loop.
C12_Witness ==
    \E a \in tasks, b \in tasks :
        /\ a.call.op = "replace" /\ b.call.op = "replace"
        /\ a.call.session_id = b.call.session_id
        /\ a.call.request.fulfillment = Null
        /\ a.call.request.line_items # <<>>
        /\ b.call.request.line_items = <<>>
        /\ b.call.request.fulfillment # Null
        /\ a.pc = "stored" /\ b.pc = "accepted"
        /\ checkout_sessions[a.call.session_id].fulfillment = Null
        /\ checkout_sessions[a.call.session_id].line_items # <<>>

\* C13: the view a read returns is the view of the session as it is stored
\* when the read returns, whatever other coroutines are in flight: all its
\* fields correspond to that one stored state.
C13_ReadIsSnapshot ==
    [][\A t \in tasks :
          (t.call.op = "read" /\ t.pc = "derived" /\ t \notin tasks') =>
              /\ response'.call = t.call
              /\ response'.body =
                    build_checkout_response(checkout_sessions'[t.call.session_id])]_vars

\* A read has derived its view of a session while a complete of the same
\* session, accepted before the read started, waits for the loop.
C13_Witness ==
    \E r \in tasks, m \in tasks :
        /\ r.call.op = "read" /\ m.call.op = "complete"
        /\ r.call.session_id = m.call.session_id
        /\ r.pc = "derived" /\ m.pc = "accepted"
        /\ running = r.call
        /\ r.view.status = READY_FOR_COMPLETE

\* The codes of a request that the catalog knows in some letter case,
\* upper-cased, in request order.
KnownCodes(discount_codes) ==
    LET known == SelectSeq(discount_codes,
                     LAMBDA code : Upper(code) \in {"DEMO20", "SAVE5", "FREESHIP"})
    IN  [i \in 1..Len(known) |-> Upper(known[i])]

\* C21: a create or replace whose products are all known succeeds whatever
\* discount codes it submits; the applied discounts are the codes the catalog
\* knows case-insensitively, in request order, and an unknown code
\* contributes nothing.
C21_UnknownCodeDropped ==
    (/\ response.call.op \in {"create", "replace"}
     /\ \A i \in 1..Len(response.call.request.line_items) :
           response.call.request.line_items[i].product_id \in DOMAIN CATALOG) =>
        /\ response.error = Null
        /\ LET applied == response.body.discounts
           IN  [i \in 1..Len(applied) |-> applied[i].code] =
                   KnownCodes(response.call.request.discount_codes)

\* A replace that submitted demo20, DEMO20 and bogus succeeded with two
\* discounts.
C21_Witness ==
    /\ response.call.op = "replace"
    /\ response.error = Null
    /\ response.call.request.discount_codes = << "demo20", "DEMO20", "bogus" >>
    /\ Len(response.body.discounts) = 2

HasEscalationError(messages) ==
    \E i \in 1..Len(messages) :
        /\ messages[i].type = ERROR
        /\ messages[i].severity \in {REQUIRES_BUYER_INPUT, REQUIRES_BUYER_REVIEW}

HasRecoverableError(messages) ==
    \E i \in 1..Len(messages) :
        /\ messages[i].type = ERROR
        /\ messages[i].severity = RECOVERABLE

\* A delivery option is selected and the address is absent.
DeliveryWithoutAddress(fulfillment) ==
    /\ fulfillment # Null
    /\ fulfillment.selected_option_id \in {"standard", "express"}
    /\ fulfillment.address = None

NoOptionSelected(fulfillment) ==
    /\ fulfillment # Null
    /\ fulfillment.selected_option_id = None

\* C22: the generated list starts with WARNING empty_cart exactly when the
\* cart is empty and goes on with exactly one of INFO select_fulfillment
\* (no fulfillment), ERROR fulfillment_required RECOVERABLE (no option),
\* ERROR address_required RECOVERABLE (standard or express without
\* address), or nothing; only ERROR messages carry a severity.
C22_MessageList ==
    response.call.op = "messages" =>
        LET line_items == response.call.request.line_items
            fulfillment == response.call.request.fulfillment
            messages == response.call.request.messages
            first_is_cart ==
                /\ messages # <<>>
                /\ messages[1] = [type |-> WARNING, code |-> "empty_cart",
                                  severity |-> None]
            rest == IF first_is_cart THEN Tail(messages) ELSE messages
        IN  /\ first_is_cart <=> (line_items = <<>>)
            /\ rest =
                 (CASE fulfillment = Null ->
                         << [type |-> INFO, code |-> "select_fulfillment",
                             severity |-> None] >>
                    [] NoOptionSelected(fulfillment) ->
                         << [type |-> ERROR, code |-> "fulfillment_required",
                             severity |-> RECOVERABLE] >>
                    [] DeliveryWithoutAddress(fulfillment) ->
                         << [type |-> ERROR, code |-> "address_required",
                             severity |-> RECOVERABLE] >>
                    [] OTHER -> <<>>)
            /\ \A i \in 1..Len(messages) :
                  (messages[i].severity # None) <=> (messages[i].type = ERROR)

\* The messages generated for an empty cart with express delivery and no
\* address: the warning, then the address error.
C22_Witness ==
    /\ response.call.op = "messages"
    /\ response.call.request.line_items = <<>>
    /\ DeliveryWithoutAddress(response.call.request.fulfillment)
    /\ response.call.request.fulfillment.selected_option_id = "express"
    /\ Len(response.call.request.messages) = 2
    /\ response.call.request.messages[2].code = "address_required"

\* C23: a message list with an ERROR of severity REQUIRES_BUYER_INPUT or
\* REQUIRES_BUYER_REVIEW derives REQUIRES_ESCALATION whatever else it holds
\* and whatever the cart and the fulfillment are; without one, a RECOVERABLE
\* error derives INCOMPLETE and nothing derives REQUIRES_ESCALATION.
C23_EscalationFirst ==
    response.call.op = "status" =>
        LET messages == response.call.request.messages
        IN  /\ HasEscalationError(messages) =>
                  response.body.status = REQUIRES_ESCALATION
            /\ (~HasEscalationError(messages) /\ HasRecoverableError(messages)) =>
                  response.body.status = INCOMPLETE
            /\ ~HasEscalationError(messages) =>
                  response.body.status # REQUIRES_ESCALATION

\* A list with a RECOVERABLE error followed by a REQUIRES_BUYER_INPUT error,
\* for a cart that is otherwise ready, derived REQUIRES_ESCALATION.
C23_Witness ==
    /\ response.call.op = "status"
    /\ Len(response.call.request.messages) = 2
    /\ response.call.request.messages[1].severity = RECOVERABLE
    /\ response.call.request.messages[2].severity = REQUIRES_BUYER_INPUT
    /\ response.call.request.messages[2].type = ERROR
    /\ response.call.request.line_items # <<>>
    /\ response.call.request.fulfillment # Null
    /\ response.call.request.fulfillment.selected_option_id = "pickup"
    /\ response.body.status = REQUIRES_ESCALATION

\* C29 as stated: with generated messages, an empty cart, an absent
\* fulfillment, a missing option and a delivery option without address each
\* come with a RECOVERABLE error.
C29_Steps3To6Covered ==
    (response.call.op = "status" /\ response.call.request.generated) =>
        LET line_items == response.call.request.line_items
            fulfillment == response.call.request.fulfillment
        IN  (\/ line_items = <<>>
             \/ fulfillment = Null
             \/ NoOptionSelected(fulfillment)
             \/ DeliveryWithoutAddress(fulfillment)) =>
                /\ HasRecoverableError(response.call.request.messages)
                /\ response.body.status = INCOMPLETE

\* C29 amended: with generated messages, a missing option and a delivery
\* option without address come with a RECOVERABLE error, so the last two
\* checks of the derivation never decide; an empty cart and an absent
\* fulfillment come with a WARNING and an INFO only, and the checks for them
\* are what makes the status INCOMPLETE.
C29_OnlyOptionChecksCovered ==
    (response.call.op = "status" /\ response.call.request.generated) =>
        LET line_items == response.call.request.line_items
            fulfillment == response.call.request.fulfillment
            messages == response.call.request.messages
        IN  /\ HasRecoverableError(messages) <=>
                  (NoOptionSelected(fulfillment) \/ DeliveryWithoutAddress(fulfillment))
            /\ (line_items = <<>> \/ fulfillment = Null) =>
                  response.body.status = INCOMPLETE
            /\ ~HasEscalationError(messages)

\* An empty cart with pickup generated the warning alone and derived
\* INCOMPLETE through the check of the cart.
C29_Witness ==
    /\ response.call.op = "status"
    /\ response.call.request.generated
    /\ response.call.request.line_items = <<>>
    /\ response.call.request.fulfillment # Null
    /\ response.call.request.fulfillment.selected_option_id = "pickup"
    /\ ~HasRecoverableError(response.call.request.messages)
    /\ response.body.status = INCOMPLETE

\* C24: the status reported for a session that is neither completed nor
\* canceled is READY_FOR_COMPLETE exactly when the cart is not empty, a
\* fulfillment record is present, an option is selected and the address is
\* present if the option is standard or express; otherwise it is INCOMPLETE.
C24_ReadyIff ==
    (/\ response.body # Null
     /\ checkout_sessions[response.body.id].status \notin {COMPLETED, CANCELED}) =>
        LET body == response.body
            ready ==
                /\ body.line_items # <<>>
                /\ body.fulfillment # Null
                /\ body.fulfillment.selected_option_id # None
                /\ (body.fulfillment.selected_option_id \in {"standard", "express"} =>
                       body.fulfillment.address # None)
        IN  body.status = (IF ready THEN READY_FOR_COMPLETE ELSE INCOMPLETE)

\* A session was replaced with two lattes and pickup, without address, and
\* is reported READY_FOR_COMPLETE.
C24_Witness ==
    /\ response.call.op = "replace"
    /\ response.body # Null
    /\ response.body.line_items # <<>>
    /\ response.body.fulfillment # Null
    /\ response.body.fulfillment.selected_option_id = "pickup"
    /\ response.body.fulfillment.address = None
    /\ response.body.status = READY_FOR_COMPLETE

\* C25: what a create stores and answers for a payload is what a replace
\* stores and answers for the same payload: the same discounts and
\* fulfillment, hence the same messages, status and totals; without a
\* fulfillment request there is no fulfillment record.
C25_CreateResolvesAsReplace ==
    (response.call.op = "create" /\ response.body # Null) =>
        LET request == response.call.request
            body == response.body
            replaced ==
                build_checkout_response(
                    UpdatedSession(checkout_sessions[body.id], body.line_items,
                        request.buyer, update_fulfillment(request.fulfillment),
                        process_discounts(request.discount_codes, body.line_items)))
        IN  /\ body.discounts = replaced.discounts
            /\ body.fulfillment = replaced.fulfillment
            /\ body.messages = replaced.messages
            /\ body.status = replaced.status
            /\ body.totals = replaced.totals
            /\ request.fulfillment = Null => body.fulfillment = Null

\* C26: a step never changes a stored session's id or created_at and never
\* lowers its updated_at, which is never before created_at; a successful
\* replace, complete or cancel sets updated_at of its session to the time it
\* read; a read and a failed operation leave updated_at as it was.
C26_Timestamps ==
    [][/\ \A id \in DOMAIN checkout_sessions :
             /\ id \in DOMAIN checkout_sessions'
             /\ checkout_sessions'[id].id = checkout_sessions[id].id
             /\ checkout_sessions'[id].created_at = checkout_sessions[id].created_at
             /\ checkout_sessions'[id].updated_at >= checkout_sessions[id].updated_at
             /\ (response'.call.op = "read" \/ response'.error # Null) =>
                   checkout_sessions'[id].updated_at = checkout_sessions[id].updated_at
       /\ \A id \in DOMAIN checkout_sessions' :
             /\ checkout_sessions'[id].id = id
             /\ checkout_sessions'[id].updated_at >= checkout_sessions'[id].created_at
       /\ (/\ response'.call.op \in {"replace", "complete", "cancel"}
           /\ response'.error = Null) =>
             /\ checkout_sessions'[response'.call.session_id].updated_at = now
             /\ response'.body.updated_at = now]_vars

\* A session canceled after it was created is read back: updated_at is
\* later than created_at.
C26_Witness ==
    /\ response.call.op = "read"
    /\ response.body # Null
    /\ response.body.status = CANCELED
    /\ response.body.updated_at > response.body.created_at

\* C28: a complete of a COMPLETED or CANCELED session fails with
\* InvalidState, with or without payment and through either entry point; it
\* issues no order id and leaves the store unchanged.
C28_TerminalBeforePayment ==
    [][(/\ response'.call.op = "complete"
        /\ response'.call.session_id \in DOMAIN checkout_sessions
        /\ checkout_sessions[response'.call.session_id].status
              \in {COMPLETED, CANCELED}) =>
          /\ InvalidState(response'.error)
          /\ uuid_counter' = uuid_counter
          /\ checkout_sessions' = checkout_sessions]_vars

\* C30: no stored session and no response has status COMPLETE_IN_PROGRESS:
\* a stored status is absent, COMPLETED or CANCELED; a response reports
\* COMPLETED or CANCELED only for a session stored with a terminal status,
\* and otherwise one of the three statuses the derivation returns.
C30_NoCompleteInProgress ==
    /\ \A id \in DOMAIN checkout_sessions :
          checkout_sessions[id].status \in {None, COMPLETED, CANCELED}
    /\ response.body # Null =>
          /\ response.body.status \in
                {INCOMPLETE, REQUIRES_ESCALATION, READY_FOR_COMPLETE,
                 COMPLETED, CANCELED}
          /\ response.body.status \in {COMPLETED, CANCELED} =>
                checkout_sessions[response.body.id].status \in {COMPLETED, CANCELED}

\* A complete succeeded: the response and the stored session are COMPLETED.
C30_Witness ==
    /\ response.call.op = "complete"
    /\ response.body # Null
    /\ response.body.status = COMPLETED
    /\ checkout_sessions[response.body.id].status = COMPLETED
    /\ response.body.order # Null

\* C27: publishing never undoes or blocks the mutation.  Whenever a tool
\* publishes (the event counter moves), whatever the subscribers do, no
\* exception leaves add_event, the request event and the response event are
\* both in the store, every subscriber has been called with both, and the
\* session written by the call the events report is in checkout_sessions as
\* the call returned it.
C27_PublishKeepsMutation ==
    [][event_store'._event_counter # event_store._event_counter =>
        LET n == event_store'._event_counter
            events == event_store'._events
            subs == event_store._subscribers
            session_id == response'.call.session_id
        IN  /\ ~event_store'.raised
            /\ \E i, j \in DOMAIN events :
                   /\ i < j
                   /\ events[i].id = <<n, "request">>
                   /\ events[j].id = <<n, "response">>
                   /\ events[j].session_id = session_id
            /\ \A k \in DOMAIN subs :
                   /\ <<subs[k], <<n, "request">>>> \in event_store'.notified
                   /\ <<subs[k], <<n, "response">>>> \in event_store'.notified
            /\ response'.error = Null
            /\ session_id \in DOMAIN checkout_sessions'
            /\ build_checkout_response(checkout_sessions'[session_id])
                   = response'.body
            /\ checkout_sessions' # checkout_sessions
            /\ tool_state' = [checkout_id |-> session_id]]_vars

\* an update has been published to two subscribers, the first of them raised
\* on the request event, the second was still called with both events, and
\* the session holds the two lines the update wrote
C27_Witness ==
    /\ Len(event_store.outcomes) = 2
    /\ event_store._subscribers = <<"on_event", "callback_2">>
    /\ event_store.outcomes[1]["on_event"] = "raises"
    /\ event_store._event_counter = 2
    /\ <<"callback_2", <<2, "request">>>> \in event_store.notified
    /\ <<"callback_2", <<2, "response">>>> \in event_store.notified
    /\ Len(event_store._events) = 4
    /\ tool_state # Null
    /\ response.call.op = "replace"
    /\ Len(checkout_sessions[tool_state.checkout_id].line_items) = 2

\* C31: in every response the discount total does not exceed the subtotal,
\* whatever codes create or replace accepted.
C31_DiscountWithinSubtotal ==
    response.body # Null =>
        response.body.totals.discount <= response.body.totals.subtotal

\* The refusals of an operation on a stored session that the code decides
\* from the session's status and the request alone.
Refuses(call, session_data) ==
    CASE call.op = "read" -> FALSE
      [] call.op = "replace" ->
            \/ call.caller = "http" /\ IsTerminal(session_data)
            \/ FirstUnknown(call.request.line_items) # 0
      [] call.op = "complete" ->
            /\ call.caller = "http"
            /\ IsTerminal(session_data) \/ PaymentMissing(call.payment)
      [] call.op = "cancel" ->
            call.caller = "http" /\ IsTerminal(session_data)
      [] OTHER -> FALSE

Expired(session_data) == session_data.expires_at < now

OptionOf(session_data) ==
    IF session_data.fulfillment = Null THEN None
    ELSE session_data.fulfillment.selected_option_id

AddressOf(session_data) ==
    IF session_data.fulfillment = Null THEN None
    ELSE session_data.fulfillment.address

\* C34: the agent's complete tool mints an order only for a session that was
\* not COMPLETED or CANCELED, had no order, had lines, and whose status, read
\* after pickup was selected where no option was, was READY_FOR_COMPLETE;
\* when the tool answers with an error instead, status and order of the
\* session are what they were.
C34_ToolChecksReadiness ==
    [][\A id \in DOMAIN checkout_sessions :
          LET session_data == checkout_sessions[id]
              before == IF OptionOf(session_data) = None
                        THEN [session_data EXCEPT
                                 !.fulfillment = Fulfillment(None, "pickup")]
                        ELSE session_data
          IN  /\ checkout_sessions'[id].order # session_data.order =>
                    /\ ~IsTerminal(session_data)
                    /\ session_data.order = Null
                    /\ session_data.line_items # <<>>
                    /\ build_checkout_response(before).status = READY_FOR_COMPLETE
                    /\ checkout_sessions'[id].status = COMPLETED
                    /\ response'.body.status = COMPLETED
                    /\ response'.body.order = checkout_sessions'[id].order
              /\ (response'.call.caller = "tool" /\ response'.call.op = "complete"
                    /\ response'.call.session_id = id) =>
                    /\ checkout_sessions'[id].status = session_data.status
                    /\ checkout_sessions'[id].order = session_data.order]_vars

\* the tool has completed a session that had lines and no option: pickup was
\* selected for it and the order is stored
C34_Witness ==
    /\ tool_state # Null
    /\ tool_state.checkout_id \in DOMAIN checkout_sessions
    /\ checkout_sessions[tool_state.checkout_id].status = COMPLETED
    /\ checkout_sessions[tool_state.checkout_id].order # Null
    /\ OptionOf(checkout_sessions[tool_state.checkout_id]) = "pickup"
    /\ response.call.op = "complete"
    /\ response.error = Null
    /\ now = 4
    /\ Len(event_store._events) = 8

\* the tool has refused to complete a session canceled over HTTP
C34_RefusedWitness ==
    /\ response.call.caller = "tool"
    /\ response.call.op = "complete"
    /\ response.error # Null
    /\ response.error.detail = "Checkout is not ready to complete"
    /\ checkout_sessions[response.call.session_id].status = CANCELED

LinesOf(session_data) ==
    [i \in DOMAIN session_data.line_items |->
        LineItemRequest(session_data.line_items[i].product_id,
                        session_data.line_items[i].quantity)]

CodesOf(session_data) ==
    [i \in DOMAIN session_data.discounts |-> session_data.discounts[i].code]

\* The step just taken was an update a tool sent for the stored session id.
ToolUpdate(id) ==
    /\ response'.call.op = "replace"
    /\ response'.call.caller = "client"
    /\ response'.call.session_id = id
    /\ response'.error = Null
    /\ checkout_sessions'[id] # checkout_sessions[id]

\* C35: an update sent by a tool changes only the tool's own part of the
\* stored checkout: when the lines change, option, address and discount codes
\* stay; when option or address change, lines and codes stay; when the codes
\* change, lines, option and address stay.
C35_ToolsKeepOtherParts ==
    [][\A id \in DOMAIN checkout_sessions :
          ToolUpdate(id) =>
              LET old == checkout_sessions[id]
                  new == checkout_sessions'[id]
                  lines == LinesOf(new) # LinesOf(old)
                  shipping == \/ OptionOf(new) # OptionOf(old)
                              \/ AddressOf(new) # AddressOf(old)
                  codes == CodesOf(new) # CodesOf(old)
              IN  /\ lines => ~shipping /\ ~codes
                  /\ shipping => ~lines /\ ~codes
                  /\ codes => ~lines /\ ~shipping]_vars

\* C36: no operation ever answers with status REQUIRES_ESCALATION or with an
\* ERROR message of severity REQUIRES_BUYER_INPUT or REQUIRES_BUYER_REVIEW:
\* every answer carries INCOMPLETE, READY_FOR_COMPLETE, COMPLETED or CANCELED.
C36_NoEscalation ==
    response.body # Null =>
        /\ response.body.status \in
              {INCOMPLETE, READY_FOR_COMPLETE, COMPLETED, CANCELED}
        /\ response.body.status # REQUIRES_ESCALATION
        /\ ~HasEscalationError(response.body.messages)

\* an answer whose messages hold the address_required ERROR: it is
\* RECOVERABLE and the status is INCOMPLETE
C36_Witness ==
    /\ response.body # Null
    /\ response.body.status = INCOMPLETE
    /\ \E i \in DOMAIN response.body.messages :
          /\ response.body.messages[i].type = ERROR
          /\ response.body.messages[i].code = "address_required"
          /\ response.body.messages[i].severity = RECOVERABLE

\* C37: when an answer reports READY_FOR_COMPLETE, the selected option id is
\* the id of one of the session's available options.
C37_ReadyOptionListed ==
    (response.body # Null /\ response.body.status = READY_FOR_COMPLETE) =>
        /\ response.body.fulfillment # Null
        /\ \E i \in DOMAIN response.body.fulfillment.available_options :
              response.body.fulfillment.available_options[i].id =
                  response.body.fulfillment.selected_option_id

\* C38: the store never holds more than max_events events.  Publishing a
\* pair leaves the previous events followed by the two new ones, cut from
\* the front to max_events; clear leaves none; nothing else changes the list.
\* So the stored events are the most recent ones published since the last
\* clear, in publication order: their ids count up to the event counter.
C38_MostRecentKept ==
    [][LET old == event_store._events
           new == event_store'._events
           n == event_store'._event_counter
           all == old \o << ProtocolEvent(<<n, "request">>, "get_checkout",
                                "request", UnknownId),
                            ProtocolEvent(<<n, "response">>, "get_checkout",
                                "response", UnknownId) >>
       IN  /\ Len(new) <= max_events
           /\ n # event_store._event_counter =>
                 /\ Len(new) = (IF Len(all) < max_events THEN Len(all)
                                                        ELSE max_events)
                 /\ \A i \in 1..Len(new) : new[i] = all[Len(all) - Len(new) + i]
           /\ n = event_store._event_counter => new = old \/ new = <<>>
           /\ \A i \in 1..Len(new) :
                 new[i].id = << n - ((Len(new) - i) \div 2),
                                IF (Len(new) - i) % 2 = 0 THEN "response"
                                                          ELSE "request" >>]_vars

\* the store is full and its oldest pair has been dropped: 51 pairs were
\* published and the first stored event is the request of the second pair
C38_Witness ==
    /\ Len(event_store._events) = max_events
    /\ event_store._event_counter = 51
    /\ event_store._events[1].id = <<2, "request">>
    /\ event_store._events[max_events].id = <<51, "response">>

\* C40: get_events(limit), for limit >= 0, answers with the last
\* min(limit, number stored) events in stored order, so with none for limit 0,
\* and the count the endpoint reports is at most limit.
C40_RecentWithinLimit ==
    [][(/\ response'.call.op = "get_events"
        /\ response'.call.request.limit >= 0
        /\ event_store' = event_store) =>
          LET limit == response'.call.request.limit
              stored == event_store._events
              got == response'.body.events
              k == IF limit < Len(stored) THEN limit ELSE Len(stored)
          IN  /\ Len(got) = k
              /\ \A i \in 1..Len(got) : got[i] = stored[Len(stored) - Len(got) + i]
              /\ limit = 0 => got = <<>>
              /\ response'.body.count = Len(got)
              /\ response'.body.count <= limit]_vars

\* C39: no WebSocket is sent the same event twice, by replay and broadcast
\* together.
C39_EachEventOnce ==
    \A client \in WebSockets :
        \A i, j \in DOMAIN frames[client] :
            (i < j /\ frames[client][i] # "connected") =>
                frames[client][i] # frames[client][j]

IsRequest(event) == event.direction = "request"

====
